---------------------------- MODULE Spec2Model ----------------------------
(***************************************************************************)
(* Rule evaluation engine of ynab-alerts (package internal/rules):         *)
(* the observation Store, the value resolver, the schedule gate and        *)
(* Evaluate.                                                               *)
(*                                                                         *)
(* Conventions of the model                                                *)
(*  - an instant (time.Time) is a number of seconds since                  *)
(*    2024-01-01 00:00:00 (a Monday), in one fixed location (no DST);      *)
(*  - a Go string that the code only compares or looks up is a string;     *)
(*    a string the code parses is kept as the sequence of its lexical      *)
(*    tokens (an expression, a condition) or of its whitespace separated   *)
(*    fields (a cron schedule, an nth_weekday), the empty string being <<>>;*)
(*  - a Go map is a function whose DOMAIN is the set of keys present;      *)
(*  - money is an integer number of milli-units.                           *)
(***************************************************************************)
EXTENDS Integers, Sequences, FiniteSets, TLC

(***************************************************************************)
(* Calendar: what time.Time's Year, Month, Day, Weekday, Hour, Minute      *)
(* compute for an instant.                                                 *)
(***************************************************************************)
IsLeap(y) == (y % 4 = 0 /\ y % 100 # 0) \/ y % 400 = 0

DaysInYear(y) == IF IsLeap(y) THEN 366 ELSE 365

DaysInMonth(y, m) ==
  CASE m \in {1, 3, 5, 7, 8, 10, 12} -> 31
    [] m \in {4, 6, 9, 11} -> 30
    [] OTHER -> IF IsLeap(y) THEN 29 ELSE 28

RECURSIVE MonthFrom(_, _, _)
MonthFrom(y, m, n) ==
  IF n < DaysInMonth(y, m) THEN [year |-> y, month |-> m, day |-> n + 1]
  ELSE MonthFrom(y, m + 1, n - DaysInMonth(y, m))

RECURSIVE YearFrom(_, _)
YearFrom(y, n) ==
  IF n < DaysInYear(y) THEN MonthFrom(y, 1, n)
  ELSE YearFrom(y + 1, n - DaysInYear(y))

\* The calendar date of day number n (day 0 is 2024-01-01).
CivilDate(n) == YearFrom(2024, n)

SecondsPerDay == 24 * 60 * 60

DayNumber(t) == t \div SecondsPerDay

Year(t) == CivilDate(DayNumber(t)).year

Month(t) == CivilDate(DayNumber(t)).month

Day(t) == CivilDate(DayNumber(t)).day

Hour(t) == (t % SecondsPerDay) \div 3600

Minute(t) == (t % 3600) \div 60

\* time.Weekday: Sunday = 0 ... Saturday = 6; day 0 is a Monday.
Weekday(t) == (DayNumber(t) + 1) % 7

\* time.Date(y, m, d, h, mi, s, 0, loc) for a date of the modelled years.
RECURSIVE DaysBeforeYear(_)
DaysBeforeYear(y) == IF y <= 2024 THEN 0 ELSE DaysBeforeYear(y - 1) + DaysInYear(y - 1)

RECURSIVE DaysBeforeMonth(_, _)
DaysBeforeMonth(y, m) == IF m <= 1 THEN 0 ELSE DaysBeforeMonth(y, m - 1) + DaysInMonth(y, m - 1)

Date(y, m, d, h, mi, s) ==
  (DaysBeforeYear(y) + DaysBeforeMonth(y, m) + d - 1) * SecondsPerDay + h * 3600 + mi * 60 + s

sameCalendarDay(a, b) == Year(a) = Year(b) /\ Month(a) = Month(b) /\ Day(a) = Day(b)

\* Variant of sameMinute that compares down to the hour only.
sameHour(a, b) ==
  /\ Year(a) = Year(b) /\ Month(a) = Month(b) /\ Day(a) = Day(b)
  /\ Hour(a) = Hour(b)

sameMinute(a, b) ==
  /\ Year(a) = Year(b) /\ Month(a) = Month(b) /\ Day(a) = Day(b)
  /\ Hour(a) = Hour(b) /\ Minute(a) = Minute(b)


(***************************************************************************)
(* Text helpers.  strconv.Atoi, strings.ToLower and strings.EqualFold are   *)
(* modelled on the vocabulary the rule documents of the model use.         *)
(***************************************************************************)
\* Spellings of integers other than the canonical decimal one.
AtoiExtra == ("05" :> 5) @@ ("014" :> 14) @@ ("+5" :> 5)

Atoi(s) ==
  LET canon == {n \in -99..99 : ToString(n) = s}
  IN  IF canon # {} THEN [ok |-> TRUE, v |-> CHOOSE n \in canon : TRUE]
      ELSE IF s \in DOMAIN AtoiExtra THEN [ok |-> TRUE, v |-> AtoiExtra[s]]
      ELSE [ok |-> FALSE, v |-> 0]

UpperCased ==
  ("Always" :> "always") @@ ("ALWAYS" :> "always") @@
  ("Monday" :> "monday") @@ ("Mon" :> "mon") @@ ("MON" :> "mon") @@
  ("Friday" :> "friday") @@ ("Fri" :> "fri") @@ ("FRI" :> "fri") @@
  ("Sunday" :> "sunday") @@ ("Sun" :> "sun") @@ ("Thursday" :> "thursday") @@
  ("Last" :> "last") @@ ("LAST" :> "last") @@ ("Funday" :> "funday")

ToLower(s) == IF s \in DOMAIN UpperCased THEN UpperCased[s] ELSE s

EqualFold(a, b) == ToLower(a) = ToLower(b)

\* The elements of a finite set of integers in increasing order.
RECURSIVE SortedSeq(_)
SortedSeq(S) ==
  IF S = {} THEN <<>>
  ELSE LET lo == CHOOSE x \in S : \A y \in S : x <= y
       IN  <<lo>> \o SortedSeq(S \ {lo})

(***************************************************************************)
(* Day gates (lint.go 362-451).                                            *)
(***************************************************************************)
\* Variant of matchesDayOfMonth that compares against the last element only.
matchesDayOfMonthLastOnly(days, today) ==
  IF Len(days) = 0 THEN TRUE
  ELSE days[Len(days)] >= today

matchesDayOfMonth(days, today) ==
  IF Len(days) = 0 THEN TRUE
  ELSE \E i \in 1..Len(days) : days[i] = today

weekdayMap ==
  ("sun" :> 0) @@ ("sunday" :> 0) @@ ("mon" :> 1) @@ ("monday" :> 1) @@
  ("tue" :> 2) @@ ("tues" :> 2) @@ ("tuesday" :> 2) @@
  ("wed" :> 3) @@ ("wednesday" :> 3) @@
  ("thu" :> 4) @@ ("thur" :> 4) @@ ("thurs" :> 4) @@ ("thursday" :> 4) @@
  ("fri" :> 5) @@ ("friday" :> 5) @@ ("sat" :> 6) @@ ("saturday" :> 6)

matchesDayOfWeek(days, today) ==
  IF Len(days) = 0 THEN TRUE
  ELSE \E i \in 1..Len(days) :
         /\ ToLower(days[i]) \in DOMAIN weekdayMap
         /\ weekdayMap[ToLower(days[i])] = today

\* expr is the nth_weekday text as its whitespace separated fields.
parseNthWeekday(expr) ==
  LET bad   == [n |-> 0, wd |-> 0, last |-> FALSE, ok |-> FALSE]
      parts == [i \in 1..Len(expr) |-> ToLower(expr[i])]
  IN  IF Len(parts) # 2 THEN bad
      ELSE LET nthStr == parts[1]
               dayStr == parts[2]
               last   == nthStr = "last"
               val    == Atoi(nthStr)
           IN  IF ~last /\ (~val.ok \/ val.v < 1) THEN bad
               ELSE IF dayStr \notin DOMAIN weekdayMap THEN bad
               ELSE [n |-> IF last THEN 0 ELSE val.v, wd |-> weekdayMap[dayStr],
                     last |-> last, ok |-> TRUE]

\* The dates of now's month that fall on weekday wd, in order (as instants).
monthWeekdayDates(now, wd) ==
  LET y == Year(now)
      m == Month(now)
      first == Date(y, m, 1, 0, 0, 0)
  IN  SortedSeq({first + (d - 1) * SecondsPerDay : d \in
                  {e \in 1..DaysInMonth(y, m) : Weekday(first + (e - 1) * SecondsPerDay) = wd}})

\* Variant of matchesNthWeekday whose length test is off by one.
matchesNthWeekdayStrict(expr, now) ==
  LET p == parseNthWeekday(expr)
  IN  IF ~p.ok THEN FALSE
      ELSE LET matchDates == monthWeekdayDates(now, p.wd)
           IN  IF p.last /\ Len(matchDates) > 0
                 THEN sameCalendarDay(now, matchDates[Len(matchDates)])
               ELSE IF p.n > 0 /\ Len(matchDates) > p.n
                 THEN sameCalendarDay(now, matchDates[p.n])
               ELSE FALSE

matchesNthWeekday(expr, now) ==
  LET p == parseNthWeekday(expr)
  IN  IF ~p.ok THEN FALSE
      ELSE LET matchDates == monthWeekdayDates(now, p.wd)
           IN  IF p.last /\ Len(matchDates) > 0
                 THEN sameCalendarDay(now, matchDates[Len(matchDates)])
               ELSE IF p.n > 0 /\ Len(matchDates) >= p.n
                 THEN sameCalendarDay(now, matchDates[p.n])
               ELSE FALSE

(***************************************************************************)
(* Cron schedules: cron.ParseStandard and Schedule.Next of robfig/cron v3, *)
(* as shouldEvaluate uses them.  A schedule text is the sequence of its     *)
(* fields; a field is "*", an integer, or one of the listed forms.          *)
(***************************************************************************)
CronFieldForms ==
  ("0,1" :> [vals |-> {0, 1}, step |-> 0]) @@
  ("0,30" :> [vals |-> {0, 30}, step |-> 0]) @@
  ("1-5" :> [vals |-> 1..5, step |-> 0]) @@
  ("*/15" :> [vals |-> {}, step |-> 15]) @@
  ("*/2" :> [vals |-> {}, step |-> 2])

\* One field within its bounds lo..hi: the set of values and the star bit.
cronField(f, lo, hi) ==
  IF f = "*" THEN [ok |-> TRUE, set |-> lo..hi, star |-> TRUE]
  ELSE IF f \in DOMAIN CronFieldForms THEN
    LET form == CronFieldForms[f]
    IN  IF form.step > 0
          THEN [ok |-> TRUE, star |-> FALSE,
                set |-> {v \in lo..hi : (v - lo) % form.step = 0}]
        ELSE [ok |-> form.vals \subseteq lo..hi, set |-> form.vals, star |-> FALSE]
  ELSE LET a == Atoi(f)
       IN  [ok |-> a.ok /\ a.v \in lo..hi, set |-> {a.v}, star |-> FALSE]

ParseStandard(schedule) ==
  IF Len(schedule) # 5 THEN [ok |-> FALSE]
  ELSE LET mi  == cronField(schedule[1], 0, 59)
           h   == cronField(schedule[2], 0, 23)
           dom == cronField(schedule[3], 1, 31)
           mon == cronField(schedule[4], 1, 12)
           dow == cronField(schedule[5], 0, 6)
       IN  IF ~(mi.ok /\ h.ok /\ dom.ok /\ mon.ok /\ dow.ok) THEN [ok |-> FALSE]
           ELSE [ok |-> TRUE, minute |-> mi.set, hour |-> h.set, dom |-> dom.set,
                 month |-> mon.set, dow |-> dow.set,
                 domStar |-> dom.star, dowStar |-> dow.star]

\* cron's dayMatches, together with the month field.
cronDayMatches(sched, t) ==
  LET domMatch == Day(t) \in sched.dom
      dowMatch == Weekday(t) \in sched.dow
  IN  /\ Month(t) \in sched.month
      /\ IF sched.domStar \/ sched.dowStar THEN domMatch /\ dowMatch
         ELSE domMatch \/ dowMatch

\* The schedule activates in the calendar minute that contains instant t.
cronTickInMinute(sched, t) ==
  cronDayMatches(sched, t) /\ Hour(t) \in sched.hour /\ Minute(t) \in sched.minute

\* The least second of day d, later than second-of-day sod, at which the
\* hour and minute fields match (sod = -1: from midnight on).
cronFirstInDay(sched, sod) ==
  LET H == {h \in sched.hour : \E mi \in sched.minute : h * 3600 + mi * 60 > sod}
  IN  IF H = {} THEN [ok |-> FALSE, s |-> 0]
      ELSE LET h0 == CHOOSE h \in H : \A g \in H : h <= g
               M  == {mi \in sched.minute : h0 * 3600 + mi * 60 > sod}
               m0 == CHOOSE mi \in M : \A g \in M : mi <= g
           IN  [ok |-> TRUE, s |-> h0 * 3600 + m0 * 60]

\* Days searched by Next before it gives up (the library gives up after
\* five years and returns the zero time).
CronHorizonDays == 400

RECURSIVE cronNextFrom(_, _, _, _)
cronNextFrom(sched, day, sod, left) ==
  LET first == cronFirstInDay(sched, sod)
  IN  IF cronDayMatches(sched, day * SecondsPerDay) /\ first.ok
        THEN [ok |-> TRUE, t |-> day * SecondsPerDay + first.s]
      ELSE IF left = 0 THEN [ok |-> FALSE, t |-> 0]
      ELSE cronNextFrom(sched, day + 1, -1, left - 1)

\* Schedule.Next(t): the first activation strictly after t; ok = FALSE stands
\* for the zero time.
cronNext(sched, t) == cronNextFrom(sched, DayNumber(t), t % SecondsPerDay, CronHorizonDays)

(***************************************************************************)
(* shouldEvaluate (lint.go 334-356).                                       *)
(***************************************************************************)
\* Variant of shouldEvaluate in which the day gates are consulted before the
\* schedule.
shouldEvaluateGatesFirst(when, now) ==
  IF Len(when.DayOfMonth) > 0 /\ ~matchesDayOfMonth(when.DayOfMonth, Day(now)) THEN FALSE
  ELSE IF Len(when.DaysOfWeek) > 0 /\ ~matchesDayOfWeek(when.DaysOfWeek, Weekday(now)) THEN FALSE
  ELSE IF Len(when.NthWeekday) # 0 /\ ~matchesNthWeekday(when.NthWeekday, now) THEN FALSE
  ELSE IF Len(when.Schedule) # 0 THEN
    LET sched == ParseStandard(when.Schedule)
    IN  IF ~sched.ok THEN FALSE
        ELSE LET prev == cronNext(sched, now - 2 * 60)
             IN  prev.ok /\ sameMinute(prev.t, now)
  ELSE TRUE

\* Variant of shouldEvaluate in which a schedule that does not parse is
\* passed over and the day gates decide.
shouldEvaluateParseErrorFalls(when, now) ==
  LET sched == ParseStandard(when.Schedule)
  IN  IF Len(when.Schedule) # 0 /\ sched.ok THEN
        LET prev == cronNext(sched, now - 2 * 60)
        IN  prev.ok /\ sameMinute(prev.t, now)
      ELSE IF Len(when.DayOfMonth) > 0 /\ ~matchesDayOfMonth(when.DayOfMonth, Day(now)) THEN FALSE
      ELSE IF Len(when.DaysOfWeek) > 0 /\ ~matchesDayOfWeek(when.DaysOfWeek, Weekday(now)) THEN FALSE
      ELSE IF Len(when.NthWeekday) # 0 /\ ~matchesNthWeekday(when.NthWeekday, now) THEN FALSE
      ELSE TRUE

shouldEvaluate(when, now) ==
  IF Len(when.Schedule) # 0 THEN
    LET sched == ParseStandard(when.Schedule)
    IN  IF ~sched.ok THEN FALSE
        ELSE LET prev == cronNext(sched, now - 2 * 60)
             IN  prev.ok /\ sameMinute(prev.t, now)
  ELSE IF Len(when.DayOfMonth) > 0 /\ ~matchesDayOfMonth(when.DayOfMonth, Day(now)) THEN FALSE
  ELSE IF Len(when.DaysOfWeek) > 0 /\ ~matchesDayOfWeek(when.DaysOfWeek, Weekday(now)) THEN FALSE
  ELSE IF Len(when.NthWeekday) # 0 /\ ~matchesNthWeekday(when.NthWeekday, now) THEN FALSE
  ELSE TRUE

(***************************************************************************)
(* Value resolver (lint.go 253-328).  An expression is the sequence of its *)
(* tokens: "account.balance(", "account.due(", ")", "var.", "*", the        *)
(* comparison operators, names, and numeric literals.                      *)
(***************************************************************************)
\* Decimal literals of the model with their exact value num/den.
DecimalLit ==
  ("50.5" :> [num |-> 505, den |-> 10]) @@
  ("25.25" :> [num |-> 2525, den |-> 100]) @@
  ("0.5" :> [num |-> 5, den |-> 10]) @@
  ("0.0004" :> [num |-> 4, den |-> 10000]) @@
  ("0.0005" :> [num |-> 5, den |-> 10000])

\* strconv.ParseFloat(s, 64) on the literals of the model.
ParseFloat(s) ==
  IF s \in DOMAIN DecimalLit THEN [ok |-> TRUE, num |-> DecimalLit[s].num, den |-> DecimalLit[s].den]
  ELSE LET a == Atoi(s)
       IN  [ok |-> a.ok, num |-> a.v, den |-> 1]

\* Variant of Round that truncates toward zero.
RoundDown(num, den) ==
  IF num >= 0 THEN num \div den ELSE 0 - ((0 - num) \div den)

\* math.Round(num/den) for den > 0: half away from zero.
Round(num, den) ==
  IF num >= 0 THEN (2 * num + den) \div (2 * den)
  ELSE 0 - ((2 * (0 - num) + den) \div (2 * den))

\* strings.Join of tokens that stand for one name; several tokens never
\* spell a name of the model.
joinName(toks) ==
  IF Len(toks) = 0 THEN "" ELSE IF Len(toks) = 1 THEN toks[1] ELSE "<compound>"

\* extractArg(expr, prefix) for an expr that starts with prefix: the text
\* between the first "(" and the last ")".
extractArg(expr) ==
  LET closes == {i \in 2..Len(expr) : expr[i] = ")"}
  IN  IF closes = {} THEN ""
      ELSE LET end == CHOOSE i \in closes : \A j \in closes : j <= i
           IN  joinName(SubSeq(expr, 2, end - 1))

resolveFail(kind) == [ok |-> FALSE, v |-> 0, err |-> kind]

resolveAccount(expr, data) ==
  LET name == extractArg(expr)
  IN  IF name = "" THEN resolveFail("MissingName")
      ELSE IF name \notin DOMAIN data.Accounts THEN resolveFail("UnknownAccount")
      ELSE [ok |-> TRUE, v |-> data.Accounts[name], err |-> "none"]

RECURSIVE resolveValue(_, _)
resolveValue(expr, data) ==
  LET stars  == {i \in 1..Len(expr) : expr[i] = "*"}
      at     == CHOOSE i \in stars : TRUE
      factor == IF Cardinality(stars) = 1 /\ at = 2 THEN ParseFloat(expr[1])
                ELSE [ok |-> FALSE, num |-> 0, den |-> 1]
  IN  IF Cardinality(stars) = 1 /\ factor.ok THEN
        LET val == resolveValue(SubSeq(expr, at + 1, Len(expr)), data)
        IN  IF ~val.ok THEN val
            ELSE [ok |-> TRUE, v |-> Round(val.v * factor.num, factor.den), err |-> "none"]
      ELSE IF Len(expr) > 0 /\ expr[1] = "account.balance(" THEN resolveAccount(expr, data)
      ELSE IF Len(expr) > 0 /\ expr[1] = "account.due(" THEN resolveAccount(expr, data)
      ELSE IF Len(expr) > 0 /\ expr[1] = "var." THEN
        LET key == joinName(Tail(expr))
        IN  IF key \notin DOMAIN data.Vars THEN resolveFail("UnknownVariable")
            ELSE [ok |-> TRUE, v |-> data.Vars[key], err |-> "none"]
      ELSE IF Len(expr) = 1 /\ ParseFloat(expr[1]).ok THEN
        [ok |-> TRUE, v |-> Round(ParseFloat(expr[1]).num * 1000, ParseFloat(expr[1]).den),
         err |-> "none"]
      ELSE resolveFail("Unsupported")

(***************************************************************************)
(* evaluateCondition (lint.go 217-251).                                    *)
(***************************************************************************)
CompareOps == {"<=", ">=", "==", "!=", "<", ">"}

\* condPattern: the first operator with text on both of its sides.
condSplit(cond) ==
  LET ops == {i \in 2..(Len(cond) - 1) : cond[i] \in CompareOps}
  IN  IF ops = {} THEN [ok |-> FALSE]
      ELSE LET i == CHOOSE k \in ops : \A j \in ops : k <= j
           IN  [ok |-> TRUE, left |-> SubSeq(cond, 1, i - 1), op |-> cond[i],
                right |-> SubSeq(cond, i + 1, Len(cond))]

evaluateCondition(cond, data) ==
  LET m == condSplit(cond)
  IN  IF ~m.ok THEN [ok |-> FALSE, v |-> FALSE, err |-> "Malformed"]
      ELSE LET lv == resolveValue(m.left, data)
               rv == resolveValue(m.right, data)
           IN  IF ~lv.ok THEN [ok |-> FALSE, v |-> FALSE, err |-> lv.err]
               ELSE IF ~rv.ok THEN [ok |-> FALSE, v |-> FALSE, err |-> rv.err]
               ELSE [ok |-> TRUE, err |-> "none",
                     v |-> CASE m.op = "<"  -> lv.v < rv.v
                             [] m.op = "<=" -> lv.v <= rv.v
                             [] m.op = ">"  -> lv.v > rv.v
                             [] m.op = ">=" -> lv.v >= rv.v
                             [] m.op = "==" -> lv.v = rv.v
                             [] OTHER       -> lv.v # rv.v]

(***************************************************************************)
(* Observation store (store.go).  values is the in-memory map              *)
(* name -> ObservedValue; the file at path is absent, a JSON document      *)
(* (the set of its members) or unparsable.                                 *)
(***************************************************************************)
ObservedValue(value, recordedAt) == [Value |-> value, RecordedAt |-> recordedAt]

\* time.Time's JSON form (RFC 3339) and its parse.
MarshalTime(t) ==
  [year |-> Year(t), month |-> Month(t), day |-> Day(t),
   hour |-> Hour(t), minute |-> Minute(t), second |-> t % 60]

UnmarshalTime(r) == Date(r.year, r.month, r.day, r.hour, r.minute, r.second)

\* json.MarshalIndent(s.values, "", "  ")
MarshalIndent(vals) ==
  {[name |-> k, value |-> vals[k].Value, recorded_at |-> MarshalTime(vals[k].RecordedAt)] :
     k \in DOMAIN vals}

\* json.Unmarshal(data, &s.values) into the empty map of NewStore.
Unmarshal(doc) ==
  [k \in {m.name : m \in doc} |->
     LET m == CHOOSE e \in doc : e.name = k
     IN  ObservedValue(m.value, UnmarshalTime(m.recorded_at))]

EmptyMap == [k \in {} |-> 0]

AbsentFile == [state |-> "absent", doc |-> {}]

CorruptFile == [state |-> "corrupt", doc |-> {}]

\* Store.load: the map NewStore starts with, or an error.
load(f) ==
  IF f.state = "absent" THEN [ok |-> TRUE, values |-> EmptyMap]
  ELSE IF f.state = "corrupt" THEN [ok |-> FALSE, values |-> EmptyMap]
  ELSE [ok |-> TRUE, values |-> Unmarshal(f.doc)]

\* Store.Snapshot
Snapshot(vals) == [k \in DOMAIN vals |-> vals[k].Value]

\* Store.Get
Get(vals, name) ==
  IF name \in DOMAIN vals THEN [ok |-> TRUE, v |-> vals[name]]
  ELSE [ok |-> FALSE, v |-> ObservedValue(0, 0)]

\* s.values[name] = val
putValue(vals, name, val) ==
  [k \in DOMAIN vals \cup {name} |-> IF k = name THEN val ELSE vals[k]]

\* What os.WriteFile(path, data, 0o644) can do: write the document, fail
\* before touching the file, or fail after truncating it.
WriteOutcomes == {"written", "failed", "truncated"}

writeFile(f, data, outcome) ==
  CASE outcome = "written"   -> [state |-> "ok", doc |-> data]
    [] outcome = "truncated" -> CorruptFile
    [] OTHER                 -> f

\* Store.Set under the lock: the map is updated, then marshalled and written.
Set(vals, f, name, val, outcome) ==
  LET updated == putValue(vals, name, val)
  IN  [values |-> updated,
       file   |-> writeFile(f, MarshalIndent(updated), outcome),
       ok     |-> outcome = "written"]

(***************************************************************************)
(* captureObservation (lint.go 186-215).                                   *)
(***************************************************************************)
\* obs.Variable == "" || obs.Value == ""
captureFieldsIgnored(obs) == FALSE

captureFieldsMissing(obs) == obs.Variable = "" \/ Len(obs.Value) = 0

shouldCaptureEveryTick(obs, existing, now) ==
  IF obs.CaptureOn = "" \/ EqualFold(obs.CaptureOn, "always") THEN TRUE
  ELSE LET day == Atoi(obs.CaptureOn)
       IN  day.ok /\ Day(now) = day.v

\* The capture_on policy, given what store.Get returned.
shouldCapture(obs, existing, now) ==
  IF obs.CaptureOn = "" \/ EqualFold(obs.CaptureOn, "always") THEN TRUE
  ELSE LET day == Atoi(obs.CaptureOn)
       IN  /\ day.ok
           /\ Day(now) = day.v
           /\ (~existing.ok \/ ~sameCalendarDay(existing.v.RecordedAt, now))

\* The store after the call, the error (or "none") and whether Set was called.
captureObservation(obs, vals, f, data, outcome) ==
  IF captureFieldsMissing(obs)
    THEN [values |-> vals, file |-> f, err |-> "CaptureFieldMissing", wrote |-> FALSE]
  ELSE IF ~shouldCapture(obs, Get(vals, obs.Variable), data.Now)
    THEN [values |-> vals, file |-> f, err |-> "none", wrote |-> FALSE]
  ELSE LET val == resolveValue(obs.Value, data)
       IN  IF ~val.ok THEN [values |-> vals, file |-> f, err |-> val.err, wrote |-> FALSE]
           ELSE LET s == Set(vals, f, obs.Variable, ObservedValue(val.v, data.Now), outcome)
                IN  [values |-> s.values, file |-> s.file,
                     err |-> IF s.ok THEN "none" ELSE "Persist", wrote |-> TRUE]

(***************************************************************************)
(* Rule documents of the model.                                            *)
(***************************************************************************)
Observe(captureOn, variable, value) ==
  [CaptureOn |-> captureOn, Variable |-> variable, Value |-> value]

When(condition, dayOfMonth, daysOfWeek, nthWeekday, schedule) ==
  [Condition |-> condition, DayOfMonth |-> dayOfMonth, DaysOfWeek |-> daysOfWeek,
   NthWeekday |-> nthWeekday, Schedule |-> schedule]

Ungated(condition) == When(condition, <<>>, <<>>, <<>>, <<>>)

Rule(name, observe, when) == [Name |-> name, Observe |-> observe, When |-> when]

Balance(name) == <<"account.balance(", name, ")">>

Due(name) == <<"account.due(", name, ")">>

\* condition texts
CheckingLow == Balance("Checking") \o <<"<", "50.5">>
CheckingHigh == Balance("Checking") \o <<">", "50.5">>
AlessB == <<"var.", "a", "<", "var.", "b">>
DueSet == <<"var.", "due", ">", "0">>

\* rule lists a rules directory may hold
CaptureRules ==
  << Rule("capture14", <<Observe("14", "due", Due("Card"))>>, <<Ungated(DueSet)>>),
     Rule("low", <<Observe("14", "due", Balance("Checking"))>>, <<Ungated(CheckingLow)>>) >>

MultiObserveRules ==
  << Rule("multi-observe",
          <<Observe("", "a", <<"10">>), Observe("Always", "b", <<"2", "*", "var.", "a">>)>>,
          <<Ungated(AlessB), Ungated(CheckingHigh)>>),
     Rule("after", <<Observe("abc", "b", <<"0.5">>)>>,
          <<Ungated(<<"var.", "b", "==", "20">>)>>) >>

OrderRules ==
  << Rule("early", <<>>, <<Ungated(<<"var.", "a", "==", "10">>)>>),
     Rule("late", <<Observe("always", "a", Balance("Checking")), Observe("", "b", <<"var.", "a">>)>>,
          <<Ungated(<<"var.", "a", "==", "var.", "b">>),
            When(CheckingLow, <<14>>, <<>>, <<>>, <<>>)>>),
     Rule("last", <<>>, <<Ungated(<<"var.", "a", "!=", "10">>), Ungated(<<>>)>>) >>

FailingRules ==
  << Rule("fires", <<>>, <<Ungated(CheckingLow), Ungated(CheckingHigh)>>),
     Rule("breaks", <<Observe("always", "a", <<"10">>)>>,
          <<Ungated(<<"var.", "a", ">", "0">>),
            Ungated(<<"var.", "a", "<", "account.balance(", "Savings", ")">>),
            Ungated(CheckingLow)>>),
     Rule("never", <<Observe("", "b", <<"20">>)>>, <<Ungated(CheckingLow)>>) >>

MissingFieldRules ==
  << Rule("fires", <<>>, <<Ungated(CheckingLow)>>),
     Rule("no-variable", <<Observe("", "a", <<"10">>), Observe("5", "", <<"10">>),
                           Observe("", "b", <<"20">>)>>,
          <<Ungated(CheckingLow)>>),
     Rule("never", <<>>, <<Ungated(CheckingLow)>>) >>

MalformedRules ==
  << Rule("bad-value", <<Observe("14", "due", <<"Card", "*", "2">>)>>, <<Ungated(CheckingLow)>>),
     Rule("bad-cond", <<>>, <<When(<<"var.", "zz">>, <<15>>, <<>>, <<>>, <<>>),
                              Ungated(CheckingLow),
                              Ungated(<<"account.balance(", "Checking">>)>>) >>

\* When entries whose schedule or nth_weekday does not parse, among others
UnparsableRules ==
  << Rule("bad-gates", <<Observe("always", "a", <<"10">>)>>,
          <<When(<<"var.", "zz", ">", "0">>, <<>>, <<>>, <<>>, <<"61", "9", "14", "*", "*">>),
            Ungated(<<"var.", "a", ">", "0">>),
            When(CheckingHigh, <<>>, <<>>, <<"first", "Monday">>, <<>>),
            When(<<"var.", "a", ">", "0">>, <<>>, <<>>, <<"first", "Monday">>,
                 <<"0", "9", "14", "*", "*">>)>>),
     Rule("after", <<Observe("", "b", <<"var.", "a">>)>>,
          <<Ungated(<<"var.", "b", "==", "10">>)>>) >>

\* a rule that only observes, and a rule with an empty condition
ObserveOnlyRules ==
  << Rule("observe-only", <<Observe("", "a", Balance("Checking"))>>, <<>>),
     Rule("uses", <<>>,
          <<Ungated(<<>>), Ungated(<<"var.", "a", "==", "account.balance(", "Checking", ")">>),
            Ungated(CheckingHigh)>>) >>

RuleSets ==
  {CaptureRules, MultiObserveRules, OrderRules, FailingRules, MissingFieldRules, MalformedRules,
   UnparsableRules, ObserveOnlyRules}

AccountSets ==
  { ("Checking" :> 50000) @@ ("Card" :> 123000),
    ("Checking" :> 60000) @@ ("Card" :> 99000) }

\* instants at which the daemon ticks
EvalNows ==
  { Date(2024, 1, 14, 9, 0, 0), Date(2024, 1, 14, 12, 0, 30),
    Date(2024, 1, 15, 9, 0, 0), Date(2024, 2, 14, 9, 0, 0) }

(***************************************************************************)
(* State.                                                                  *)
(***************************************************************************)
VARIABLES
  values,      \* Store.values of the open store
  file,        \* the observation file at Store.path
  storeOpen,   \* NewStore succeeded: the daemon holds a *Store
  pc,          \* where the running Evaluate call is: idle, rule, observe, when, done
  rules,       \* Evaluate's rules argument
  useStore,    \* Evaluate's store argument is not nil
  Accounts,    \* data.Accounts
  Vars,        \* data.Vars
  Now,         \* data.Now
  ri,          \* index of the rule of the outer loop
  oi,          \* index into rule.Observe
  wi,          \* index into rule.When
  triggers,    \* the triggers slice
  err,         \* the error Evaluate returns
  cancelled,   \* ctx.Done() is closed
  calls,       \* Evaluate calls made so far
  trace,       \* history: what the running call did, in order
  valuesAtCall \* history: Store.values when the running call started

VARIABLES
  gEntry,      \* schedule gate alone: the "when" entry of the rule file
  gWhen,       \*   the When it was loaded into
  gNow,        \*   the instant
  gRule,       \*   the one-rule batch that holds gWhen
  gOut         \*   the outcome: eligibility and the triggers of the batch

VARIABLES
  mu,          \* Store.mu: 0 when free, else the goroutine that holds it
  cpc,         \* per goroutine: where it is in its store call
  cop,         \* per goroutine: the call (op, name, val) and its local data
  done         \* history: the calls completed, in order of completion

VARIABLES
  cfg,         \* Service.cfg: DayStart and DayEnd, as seconds of the day
  spc,         \* where Run is: off, start, select, fetch, evaluate, notify, returned
  tickerC,     \* ticker.C holds a firing
  fires,       \* firings the ticker has delivered so far
  tickNow,     \* now of the running tick
  ni,          \* index into triggers of the Notify loop
  runErr,      \* the error Run returned
  ticks        \* history: one record per tick Run has started, in order

VARIABLES
  lDir,        \* lint: the rules of the directory that is linted
  lNow,        \*   the instant
  lPoll,       \*   the poll interval, in seconds
  lOut         \*   what LintWithPoll returned

VARIABLES
  rExpr,       \* resolver alone: the expression
  rData,       \*   the snapshot
  rOut,        \*   what resolveValue returned
  cdata        \* concurrent captures: per goroutine, the data of its Evaluate call

storeVars == <<values, file, storeOpen>>

evalVars ==
  <<pc, rules, useStore, Accounts, Vars, Now, ri, oi, wi, triggers, err, cancelled,
    calls, trace, valuesAtCall>>

gateVars == <<gEntry, gWhen, gNow, gRule, gOut>>

clientVars == <<mu, cpc, cop, done>>

serviceVars == <<cfg, spc, tickerC, fires, tickNow, ni, runErr, ticks>>

lintVars == <<lDir, lNow, lPoll, lOut>>

resolveVars == <<rExpr, rData, rOut, cdata>>

allVars == <<storeVars, evalVars, gateVars, clientVars, serviceVars, lintVars, resolveVars>>

\* Evaluate calls in one behaviour.
MaxCalls == 2

NoError == [kind |-> "none", rule |-> ""]

Event(k, r, i, seen, out, wrote, var, val) ==
  [k |-> k, r |-> r, i |-> i, seen |-> seen, out |-> out, wrote |-> wrote,
   var |-> var, val |-> val]

data == [Accounts |-> Accounts, Vars |-> Vars, Now |-> Now]

GateIdle ==
  /\ gEntry = <<>>
  /\ gWhen = Ungated(<<>>) /\ gNow = 0 /\ gRule = <<>> /\ gOut = [state |-> "unset"]

ClientsIdle == mu = 0 /\ cpc = <<>> /\ cop = <<>> /\ done = <<>>

ResolveIdle ==
  rExpr = <<>> /\ rData = <<>> /\ rOut = [state |-> "unset"] /\ cdata = <<>>

LintIdle == lDir = <<>> /\ lNow = 0 /\ lPoll = 0 /\ lOut = [state |-> "unset"]

NoWindow == [DayStart |-> 0, DayEnd |-> 0]

ServiceIdle ==
  /\ cfg = NoWindow /\ spc = "off" /\ tickerC = FALSE /\ fires = 0
  /\ tickNow = 0 /\ ni = 0 /\ runErr = "none" /\ ticks = <<>>

EvalIdle ==
  /\ pc = "idle" /\ rules = <<>> /\ useStore = FALSE
  /\ Accounts = EmptyMap /\ Vars = EmptyMap /\ Now = 0
  /\ ri = 0 /\ oi = 0 /\ wi = 0
  /\ triggers = <<>> /\ err = NoError /\ cancelled = FALSE
  /\ calls = 0 /\ trace = <<>> /\ valuesAtCall = EmptyMap

\* NewStore(path) at a location that does not exist yet.
Init ==
  /\ file = AbsentFile
  /\ values = load(AbsentFile).values
  /\ storeOpen = load(AbsentFile).ok
  /\ EvalIdle /\ GateIdle /\ ClientsIdle /\ ServiceIdle /\ LintIdle /\ ResolveIdle

(***************************************************************************)
(* Evaluate (lint.go 139-184), one step per loop iteration, and its caller *)
(* Service.tick (service.go 165-209).                                      *)
(***************************************************************************)
\* tick builds the snapshot and calls Evaluate; a test calls it with an
\* empty variable mapping, and with or without a store.
EvalCall ==
  /\ pc = "idle"
  /\ calls < MaxCalls
  /\ \E rs \in RuleSets, acc \in AccountSets, t \in {u \in EvalNows : u >= Now},
        st \in {s \in BOOLEAN : s => storeOpen}, preload \in BOOLEAN :
       /\ preload => st
       /\ rules' = rs
       /\ Accounts' = acc
       /\ Now' = t
       /\ useStore' = st
       /\ Vars' = IF preload THEN Snapshot(values) ELSE EmptyMap
  /\ pc' = "rule"
  /\ ri' = 1 /\ oi' = 0 /\ wi' = 0
  /\ triggers' = <<>>
  /\ err' = NoError
  /\ cancelled' = FALSE
  /\ calls' = calls + 1
  /\ trace' = <<>>
  /\ valuesAtCall' = values
  /\ UNCHANGED <<storeVars, gateVars, clientVars, serviceVars, lintVars, resolveVars>>

\* case <-ctx.Done() of the select at the head of the outer loop
ctxNeverDone(c) == FALSE

ctxDone(c) == c

\* data.Vars = store.Snapshot() after a capture
keepVars(vars, vals) == vars

refreshVars(vars, vals) == Snapshot(vals)

\* The loop position after the Observe entries of rule ri: its When
\* entries, or the next rule when it has none.
afterObserves ==
  IF Len(rules[ri].When) = 0
    THEN [pc |-> "rule", ri |-> ri + 1, wi |-> 0]
    ELSE [pc |-> "when", ri |-> ri, wi |-> 1]

\* The head of the outer loop: the end of the batch, or the cancellation
\* check of rule ri.
RuleStart ==
  /\ pc = "rule"
  /\ IF ri > Len(rules) THEN
       /\ pc' = "done"
       /\ UNCHANGED <<ri, oi, wi, err, trace>>
     ELSE IF ctxDone(cancelled) THEN
       /\ pc' = "done"
       /\ err' = [kind |-> "Canceled", rule |-> ""]
       /\ UNCHANGED <<ri, oi, wi, trace>>
     ELSE
       /\ trace' = Append(trace, Event("start", ri, 0, Vars, "none", FALSE, "", 0))
       /\ err' = err
       /\ IF useStore /\ Len(rules[ri].Observe) > 0
            THEN pc' = "observe" /\ oi' = 1 /\ UNCHANGED <<ri, wi>>
            ELSE /\ pc' = afterObserves.pc /\ ri' = afterObserves.ri /\ wi' = afterObserves.wi
                 /\ oi' = 0
  /\ UNCHANGED <<rules, useStore, Accounts, Vars, Now, triggers, cancelled, calls, valuesAtCall>>
  /\ UNCHANGED <<storeVars, gateVars, clientVars, serviceVars, lintVars, resolveVars>>

\* One iteration of the Observe loop: captureObservation, then the refresh
\* of data.Vars.
ObserveStep ==
  /\ pc = "observe"
  /\ \E outcome \in WriteOutcomes :
       LET obs == rules[ri].Observe[oi]
           r   == captureObservation(obs, values, file, data, outcome)
       IN  /\ values' = r.values
           /\ file' = r.file
           /\ trace' = Append(trace, Event("obs", ri, oi, Vars, r.err, r.wrote, obs.Variable,
                                           IF r.wrote THEN r.values[obs.Variable].Value ELSE 0))
           /\ IF r.err # "none" THEN
                /\ pc' = "done"
                /\ err' = [kind |-> r.err, rule |-> rules[ri].Name]
                /\ UNCHANGED <<Vars, ri, oi, wi>>
              ELSE
                /\ Vars' = refreshVars(Vars, r.values)
                /\ err' = err
                /\ IF oi < Len(rules[ri].Observe)
                     THEN oi' = oi + 1 /\ UNCHANGED <<pc, ri, wi>>
                     ELSE /\ pc' = afterObserves.pc /\ ri' = afterObserves.ri
                          /\ wi' = afterObserves.wi /\ oi' = oi
  /\ UNCHANGED <<rules, useStore, Accounts, Now, triggers, cancelled, calls, valuesAtCall>>
  /\ UNCHANGED <<storeOpen, gateVars, clientVars, serviceVars, lintVars, resolveVars>>

\* Variant of whenOutcome that does not consult the schedule gate.
whenOutcomeUngated(when, d) ==
  IF Len(when.Condition) = 0 THEN "empty"
  ELSE LET c == evaluateCondition(when.Condition, d)
       IN  IF ~c.ok THEN c.err ELSE IF c.v THEN "fired" ELSE "false"

\* What one When entry comes to: skipped ("empty", "gated"), evaluated
\* ("false", "fired") or the kind of the error of its condition.
whenOutcome(when, d) ==
  IF Len(when.Condition) = 0 THEN "empty"
  ELSE IF ~shouldEvaluate(when, d.Now) THEN "gated"
  ELSE LET c == evaluateCondition(when.Condition, d)
       IN  IF ~c.ok THEN c.err ELSE IF c.v THEN "fired" ELSE "false"

WhenPassed == {"empty", "gated", "false", "fired"}

Trigger(rule, when) == [Rule |-> rule, Message |-> <<"Rule", rule.Name, "triggered:", when.Condition>>]

\* One iteration of the When loop.
WhenStep ==
  /\ pc = "when"
  /\ LET when == rules[ri].When[wi]
         out  == whenOutcome(when, data)
     IN  /\ trace' = Append(trace, Event("when", ri, wi, Vars, out, FALSE, "", 0))
         /\ IF out \notin WhenPassed THEN
              /\ pc' = "done"
              /\ err' = [kind |-> out, rule |-> rules[ri].Name]
              /\ UNCHANGED <<triggers, ri, wi>>
            ELSE
              /\ triggers' = IF out = "fired" THEN Append(triggers, Trigger(rules[ri], when))
                             ELSE triggers
              /\ err' = err
              /\ IF wi < Len(rules[ri].When)
                   THEN wi' = wi + 1 /\ UNCHANGED <<pc, ri>>
                   ELSE pc' = "rule" /\ ri' = ri + 1 /\ wi' = wi
  /\ UNCHANGED <<rules, useStore, Accounts, Vars, Now, oi, cancelled, calls, valuesAtCall>>
  /\ UNCHANGED <<storeVars, gateVars, clientVars, serviceVars, lintVars, resolveVars>>

\* The caller cancels ctx while Evaluate runs.
Cancel ==
  /\ pc \in {"rule", "observe", "when"}
  /\ ~cancelled
  /\ cancelled' = TRUE
  /\ trace' = Append(trace, Event("cancel", ri, 0, Vars, "none", FALSE, "", 0))
  /\ UNCHANGED <<pc, rules, useStore, Accounts, Vars, Now, ri, oi, wi, triggers, err, calls,
                 valuesAtCall>>
  /\ UNCHANGED <<storeVars, gateVars, clientVars, serviceVars, lintVars, resolveVars>>

\* Evaluate has returned (triggers, err) to its caller.
Return ==
  /\ pc = "done"
  /\ pc' = "idle"
  /\ UNCHANGED <<rules, useStore, Accounts, Vars, Now, ri, oi, wi, triggers, err, cancelled,
                 calls, trace, valuesAtCall>>
  /\ UNCHANGED <<storeVars, gateVars, clientVars, serviceVars, lintVars, resolveVars>>

\* The daemon is started again: NewStore(path) loads the file.
Restart ==
  /\ pc = "idle"
  /\ storeOpen' = load(file).ok
  /\ values' = load(file).values
  /\ UNCHANGED <<file, evalVars, gateVars, clientVars, serviceVars, lintVars, resolveVars>>

Next == EvalCall \/ RuleStart \/ ObserveStep \/ WhenStep \/ Cancel \/ Return \/ Restart

Spec == Init /\ [][Next]_allVars

(***************************************************************************)
(* The schedule gate on its own: shouldEvaluate applied to a When and an   *)
(* instant, and Evaluate applied to the batch of one rule that holds this  *)
(* When, without a store (as the tests of evaluate_test.go call it).       *)
(***************************************************************************)
GateAccounts == ("Checking" :> 50000)

GateConditions == {CheckingLow, CheckingHigh}

ScheduleTexts ==
  { <<"0", "9", "14", "*", "*">>,      \* 09:00 on the 14th
    <<"*", "*", "*", "*", "*">>,       \* every minute
    <<"0,1", "9", "*", "*", "*">>,     \* 09:00 and 09:01 every day
    <<"*/15", "*", "*", "*", "*">>,    \* every quarter of an hour
    <<"0", "9", "*", "*", "1">>,       \* 09:00 on Mondays
    <<"0", "0", "15", "*", "5">>,      \* midnight on the 15th or on Fridays
    <<"61", "9", "14", "*", "*">>,     \* minute out of range
    <<"0", "9", "14", "*">> }          \* four fields

GateDaysOfMonth == {<<>>, <<1>>, <<14>>, <<0>>, <<14, 40>>}

GateDaysOfWeek == {<<>>, <<"Fri">>, <<"Thursday">>, <<"Funday">>}

GateNthWeekdays == {<<>>, <<"1", "Monday">>, <<"2", "Thursday">>, <<"first", "Monday">>}

\* 2024-03-14 is the second Thursday of March 2024.
CronNows ==
  { Date(2024, 3, 14, 8, 58, 0), Date(2024, 3, 14, 8, 59, 0), Date(2024, 3, 14, 8, 59, 59),
    Date(2024, 3, 14, 9, 0, 0), Date(2024, 3, 14, 9, 0, 30), Date(2024, 3, 14, 9, 0, 59),
    Date(2024, 3, 14, 9, 1, 0), Date(2024, 3, 14, 9, 1, 30), Date(2024, 3, 14, 9, 2, 0),
    Date(2024, 3, 14, 9, 15, 0), Date(2024, 3, 14, 23, 59, 30), Date(2024, 3, 15, 0, 0, 0),
    Date(2024, 3, 15, 0, 1, 0), Date(2024, 3, 15, 9, 0, 0), Date(2024, 3, 18, 9, 0, 0) }

\* Noon of every day from 2024-01-01 to 2024-04-30 and of February 2025.
DayNows ==
  {Date(2024, 1, 1, 12, 0, 0) + n * SecondsPerDay : n \in 0..120}
    \cup {Date(2025, 2, d, 12, 0, 0) : d \in 1..28}

ScheduledWhens ==
  {When(c, dom, dow, nth, s) : c \in GateConditions, dom \in GateDaysOfMonth,
     dow \in GateDaysOfWeek, nth \in GateNthWeekdays, s \in ScheduleTexts}

DayGatedWhens ==
  {When(c, <<d>>, <<>>, <<>>, <<>>) : c \in GateConditions, d \in 1..31}
    \cup {When(CheckingLow, dom, dow, nth, <<>>) : dom \in GateDaysOfMonth,
            dow \in GateDaysOfWeek, nth \in GateNthWeekdays}

GateCases == (ScheduledWhens \X CronNows) \cup (DayGatedWhens \X DayNows)

\* A "when" entry of a rule file: the keys the README documents.
YAMLWhen(condition, dayOfMonth, dayOfMonthRange, daysOfWeek, nthWeekday, schedule) ==
  [condition |-> condition, day_of_month |-> dayOfMonth,
   day_of_month_range |-> dayOfMonthRange, days_of_week |-> daysOfWeek,
   nth_weekday |-> nthWeekday, schedule |-> schedule]

\* yaml.Unmarshal into When: the keys that have a field tag are loaded, any
\* other key of the entry is dropped.
UnmarshalWhen(entry) ==
  When(entry.condition, entry.day_of_month, entry.days_of_week, entry.nth_weekday,
       entry.schedule)

\* the entry that spells out a When, with the given day_of_month_range
yamlOf(when, ranges) ==
  YAMLWhen(when.Condition, when.DayOfMonth, ranges, when.DaysOfWeek, when.NthWeekday,
           when.Schedule)

\* day_of_month counted from the end of the month
NegativeDayWhens == {When(CheckingLow, <<0 - k>>, <<>>, <<>>, <<>>) : k \in 1..31}

NthWeekdayTexts ==
  { <<"1", "Monday">>, <<"3", "wed">>, <<"5", "Monday">>, <<"5", "Friday">>,
    <<"last", "Friday">>, <<"LAST", "sun">>, <<"0", "Monday">>, <<"2", "Funday">>,
    <<"last">>, <<"1", "st", "Monday">> }

NthWeekdayWhens ==
  {When(c, <<>>, <<>>, nth, <<>>) : c \in GateConditions, nth \in NthWeekdayTexts}

\* "27-5" as its start, the dash and its end
DayRange(start, end) == <<start, "-", end>>

DayRangeLists ==
  { <<DayRange("27", "5")>>, <<DayRange("5", "10")>>, <<DayRange("10", "10")>>,
    <<DayRange("1", "3"), DayRange("29", "30")>> }

RangeEntries ==
  {YAMLWhen(CheckingLow, <<>>, r, <<>>, <<>>, <<>>) : r \in DayRangeLists}
    \cup {YAMLWhen(CheckingLow, <<14>>, <<DayRange("10", "20")>>, dow, <<>>, <<>>) :
            dow \in GateDaysOfWeek}

GateEntries ==
  {<<yamlOf(c[1], <<>>), c[2]>> :
     c \in GateCases \cup ((NegativeDayWhens \cup NthWeekdayWhens) \X DayNows)}
    \cup (RangeEntries \X DayNows)

InitGate ==
  /\ file = AbsentFile /\ values = EmptyMap /\ storeOpen = FALSE
  /\ EvalIdle /\ ClientsIdle /\ ServiceIdle /\ LintIdle /\ ResolveIdle
  /\ \E c \in GateEntries :
       /\ gEntry = c[1]
       /\ gWhen = UnmarshalWhen(c[1])
       /\ gNow = c[2]
       /\ gRule = <<Rule("gated", <<>>, <<UnmarshalWhen(c[1])>>)>>
  /\ gOut = [state |-> "unset"]

\* shouldEvaluate(gWhen, gNow), and the triggers of Evaluate(ctx, gRule, nil, data).
GateApply ==
  /\ gOut.state = "unset"
  /\ LET d   == [Accounts |-> GateAccounts, Vars |-> EmptyMap, Now |-> gNow]
         out == whenOutcome(gRule[1].When[1], d)
     IN  gOut' = [state |-> "set",
                  eligible |-> shouldEvaluate(gWhen, gNow),
                  out |-> out,
                  triggers |-> IF out = "fired" THEN <<Trigger(gRule[1], gRule[1].When[1])>>
                               ELSE <<>>]
  /\ UNCHANGED <<gEntry, gWhen, gNow, gRule, storeVars, evalVars, clientVars, serviceVars,
                 lintVars, resolveVars>>

NextGate == GateApply

SpecGate == InitGate /\ [][NextGate]_allVars

(***************************************************************************)
(* Properties of the schedule gate (specification SpecGate).               *)
(***************************************************************************)
\* gWhen with its day gates emptied.
withoutDayGates(when) == When(when.Condition, <<>>, <<>>, <<>>, when.Schedule)

\* C5 -- Schedule precedence: for a When whose schedule is non-empty the
\* eligibility is the one of the same When with every day gate empty,
\* whether the day gates match now, conflict with it or are invalid.
SchedulePrecedence ==
  (gOut.state = "set" /\ Len(gWhen.Schedule) # 0) =>
     /\ gOut.eligible = shouldEvaluate(withoutDayGates(gWhen), gNow)
     /\ (gOut.out = "gated") = ~gOut.eligible

\* A scheduled When whose day_of_month conflicts with now (the 14th, gate
\* [1]) and whose days_of_week is invalid, eligible from the cron match.
SchedulePrecedenceWitness ==
  /\ gOut.state = "set"
  /\ gWhen.Schedule = <<"0", "9", "14", "*", "*">>
  /\ gWhen.DayOfMonth = <<1>> /\ gWhen.DaysOfWeek = <<"Funday">>
  /\ gNow = Date(2024, 3, 14, 9, 0, 0)
  /\ gOut.eligible
  /\ Len(gOut.triggers) = 1

\* C6 -- For a When with a valid schedule the gate is eligible at every
\* instant whose calendar minute holds a tick of the schedule.
CronTickEligible ==
  (gOut.state = "set" /\ Len(gWhen.Schedule) # 0 /\ ParseStandard(gWhen.Schedule).ok
     /\ cronTickInMinute(ParseStandard(gWhen.Schedule), gNow))
  => gOut.eligible

\* C10 -- With day_of_month [d], 1 <= d <= 31, and no other gate and no
\* schedule, the gate is eligible iff now's day of month is d, and when it is
\* not the batch yields no trigger whatever the condition.
DayOfMonthGate ==
  (/\ gOut.state = "set"
   /\ Len(gWhen.Schedule) = 0 /\ Len(gWhen.DaysOfWeek) = 0 /\ Len(gWhen.NthWeekday) = 0
   /\ Len(gWhen.DayOfMonth) = 1 /\ gWhen.DayOfMonth[1] \in 1..31)
  => /\ gOut.eligible = (CivilDate(DayNumber(gNow)).day = gWhen.DayOfMonth[1])
     /\ ~gOut.eligible => gOut.triggers = <<>>
     /\ gWhen.DayOfMonth[1] > DaysInMonth(Year(gNow), Month(gNow)) => ~gOut.eligible
     /\ (Len(gOut.triggers) = 1) = (gOut.eligible /\ gWhen.Condition = CheckingLow)

\* day_of_month [14] on the 15th with a true condition: no trigger.
DayOfMonthGateWitness ==
  /\ gOut.state = "set"
  /\ gWhen = When(CheckingLow, <<14>>, <<>>, <<>>, <<>>)
  /\ gNow = Date(2024, 1, 15, 12, 0, 0)
  /\ ~gOut.eligible
  /\ gOut.triggers = <<>>

(***************************************************************************)
(* The store under concurrent callers (store.go 54-85): every call takes   *)
(* Store.mu, runs its body and releases the lock on return.                *)
(***************************************************************************)
\* goroutines that call the store
NumGoroutines == 2

\* store calls in one behaviour
MaxStoreCalls == 3

Goroutines == 1..NumGoroutines

StoreNames == {"a", "b"}

StoreVals ==
  { ObservedValue(10000, Date(2024, 1, 14, 9, 0, 0)),
    ObservedValue(20000, Date(2024, 2, 29, 23, 59, 30)) }

NoCall ==
  [op |-> "none", name |-> "", val |-> ObservedValue(0, 0), before |-> EmptyMap,
   buf |-> {}, ok |-> TRUE, got |-> Get(EmptyMap, ""), snap |-> EmptyMap]

InitStore ==
  /\ file = AbsentFile
  /\ values = load(AbsentFile).values
  /\ storeOpen = load(AbsentFile).ok
  /\ EvalIdle /\ GateIdle /\ ServiceIdle /\ LintIdle /\ ResolveIdle
  /\ mu = 0
  /\ cpc = [g \in Goroutines |-> "idle"]
  /\ cop = [g \in Goroutines |-> NoCall]
  /\ done = <<>>

StoreCallsStarted == Len(done) + Cardinality({g \in Goroutines : cpc[g] # "idle"})

\* goroutine g calls s.Get(name), s.Snapshot() or s.Set(name, val)
StoreCall(g) ==
  /\ cpc[g] = "idle"
  /\ storeOpen
  /\ StoreCallsStarted < MaxStoreCalls
  /\ \E c \in {[NoCall EXCEPT !.op = "Snapshot"]}
          \cup {[NoCall EXCEPT !.op = "Get", !.name = n] : n \in StoreNames}
          \cup {[NoCall EXCEPT !.op = "Set", !.name = n, !.val = v] :
                  n \in StoreNames, v \in StoreVals} :
       cop' = [cop EXCEPT ![g] = c]
  /\ cpc' = [cpc EXCEPT ![g] = "lock"]
  /\ UNCHANGED <<mu, done, storeVars, evalVars, gateVars, serviceVars, lintVars, resolveVars>>

\* s.mu.Lock()
Lock(g) ==
  /\ cpc[g] = "lock"
  /\ mu = 0
  /\ mu' = g
  /\ cpc' = [cpc EXCEPT ![g] = CASE cop[g].op = "Get" -> "get"
                                 [] cop[g].op = "Snapshot" -> "snapshot"
                                 [] OTHER -> "assign"]
  /\ UNCHANGED <<cop, done, storeVars, evalVars, gateVars, serviceVars, lintVars, resolveVars>>

\* v, ok := s.values[name]
GetBody(g) ==
  /\ cpc[g] = "get"
  /\ cop' = [cop EXCEPT ![g].got = Get(values, cop[g].name)]
  /\ cpc' = [cpc EXCEPT ![g] = "unlock"]
  /\ UNCHANGED <<mu, done, storeVars, evalVars, gateVars, serviceVars, lintVars, resolveVars>>

\* the copy loop of Snapshot
SnapshotBody(g) ==
  /\ cpc[g] = "snapshot"
  /\ cop' = [cop EXCEPT ![g].snap = Snapshot(values)]
  /\ cpc' = [cpc EXCEPT ![g] = "unlock"]
  /\ UNCHANGED <<mu, done, storeVars, evalVars, gateVars, serviceVars, lintVars, resolveVars>>

\* s.values[name] = val
SetAssign(g) ==
  /\ cpc[g] = "assign"
  /\ cop' = [cop EXCEPT ![g].before = values]
  /\ values' = putValue(values, cop[g].name, cop[g].val)
  /\ cpc' = [cpc EXCEPT ![g] = "marshal"]
  /\ UNCHANGED <<mu, done, file, storeOpen, evalVars, gateVars, serviceVars, lintVars, resolveVars>>

\* data, err := json.MarshalIndent(s.values, "", "  ")
SetMarshal(g) ==
  /\ cpc[g] = "marshal"
  /\ cop' = [cop EXCEPT ![g].buf = MarshalIndent(values)]
  /\ cpc' = [cpc EXCEPT ![g] = "write"]
  /\ UNCHANGED <<mu, done, storeVars, evalVars, gateVars, serviceVars, lintVars, resolveVars>>

\* return os.WriteFile(s.path, data, 0o644)
SetWrite(g) ==
  /\ cpc[g] = "write"
  /\ \E outcome \in WriteOutcomes :
       /\ file' = writeFile(file, cop[g].buf, outcome)
       /\ cop' = [cop EXCEPT ![g].ok = (outcome = "written")]
  /\ cpc' = [cpc EXCEPT ![g] = "unlock"]
  /\ UNCHANGED <<mu, done, values, storeOpen, evalVars, gateVars, serviceVars, lintVars,
                 resolveVars>>

\* the deferred s.mu.Unlock(); the call returns
Unlock(g) ==
  /\ cpc[g] = "unlock"
  /\ mu' = 0
  /\ done' = Append(done, [cop[g] EXCEPT !.buf = {}])
  /\ cpc' = [cpc EXCEPT ![g] = "idle"]
  /\ cop' = [cop EXCEPT ![g] = NoCall]
  /\ UNCHANGED <<storeVars, evalVars, gateVars, serviceVars, lintVars, resolveVars>>

\* The store is closed and opened again from its path: NewStore.
Reopen ==
  /\ \A g \in Goroutines : cpc[g] = "idle"
  /\ Len(done) > 0
  /\ storeOpen' = load(file).ok
  /\ values' = load(file).values
  /\ UNCHANGED <<file, clientVars, evalVars, gateVars, serviceVars, lintVars, resolveVars>>

NextStore ==
  \/ \E g \in Goroutines :
       \/ StoreCall(g) \/ Lock(g) \/ GetBody(g) \/ SnapshotBody(g)
       \/ SetAssign(g) \/ SetMarshal(g) \/ SetWrite(g) \/ Unlock(g)
  \/ Reopen

SpecStore == InitStore /\ [][NextStore]_allVars

(***************************************************************************)
(* Properties of the store.                                                *)
(***************************************************************************)
StoreQuiet == \A g \in Goroutines : cpc[g] = "idle"

SetCalls(hist) == {i \in 1..Len(hist) : hist[i].op = "Set"}

\* the Set hist of the history that returned nil
PersistedSets(hist) == {i \in SetCalls(hist) : hist[i].ok}

\* the map after the hist of the history have been applied in their order
RECURSIVE applySets(_, _)
applySets(hist, vals) ==
  IF hist = <<>> THEN vals
  ELSE applySets(Tail(hist),
                 IF Head(hist).op = "Set"
                   THEN putValue(vals, Head(hist).name, Head(hist).val)
                   ELSE vals)

Prefix(hist, n) == [i \in 1..n |-> hist[i]]

\* C7: once the callers have returned, every name whose Set succeeded is in
\* the in-memory map and in the persisted document with the value and
\* recorded_at of its most recent successful Set, and a Set in progress has
\* changed no entry other than its own name.
NoKeyLost ==
  /\ StoreQuiet =>
       \A i \in PersistedSets(done) :
         LET n    == done[i].name
             last == CHOOSE j \in PersistedSets(done) :
                       /\ done[j].name = n
                       /\ \A k \in PersistedSets(done) : done[k].name = n => k <= j
         IN  /\ Get(values, n) = [ok |-> TRUE, v |-> done[last].val]
             /\ file.state = "ok"
             /\ \E m \in file.doc :
                  /\ m.name = n
                  /\ m.value = done[last].val.Value
                  /\ UnmarshalTime(m.recorded_at) = done[last].val.RecordedAt
  /\ \A g \in Goroutines :
       cpc[g] \in {"marshal", "write", "unlock"} /\ cop[g].op = "Set" =>
         \A n \in StoreNames \ {cop[g].name} :
           Get(values, n) = Get(cop[g].before, n)

\* C8: when the write of a Set has failed, the in-memory entry of its name
\* is what it was before the call, so Get and Snapshot do not report the
\* unpersisted value.
FailedSetLeavesEntry ==
  \A g \in Goroutines :
    cpc[g] = "unlock" /\ cop[g].op = "Set" /\ ~cop[g].ok =>
      /\ Get(values, cop[g].name) = Get(cop[g].before, cop[g].name)
      /\ Snapshot(values) = Snapshot(cop[g].before)

\* C9: at most one caller is inside the store, every Get and Snapshot
\* returned the map of the hist completed before it, and once the callers
\* have returned the in-memory map equals the persisted document and the
\* result of applying the Set hist in the order they completed.
StoreSerialized ==
  /\ Cardinality({g \in Goroutines : cpc[g] \notin {"idle", "lock"}}) <= 1
  /\ \A i \in 1..Len(done) :
       LET at == applySets(Prefix(done, i - 1), EmptyMap)
       IN  /\ done[i].op = "Snapshot" => done[i].snap = Snapshot(at)
           /\ done[i].op = "Get" => done[i].got = Get(at, done[i].name)
  /\ StoreQuiet /\ SetCalls(done) # {} =>
       /\ values = applySets(done, EmptyMap)
       /\ file.state = "ok"
       /\ Unmarshal(file.doc) = values

(***************************************************************************)
(* Properties of Evaluate, stated over the history of the running call.    *)
(***************************************************************************)
Events == 1..Len(trace)

ObsEvents == {p \in Events : trace[p].k = "obs"}

WhenEvents == {p \in Events : trace[p].k = "when"}

StepEvents == {p \in Events : trace[p].k # "cancel"}

obsOf(p) == rules[trace[p].r].Observe[trace[p].i]

whenOf(p) == rules[trace[p].r].When[trace[p].i]

\* event p called store.Set for variable x
Wrote(p, x) == trace[p].k = "obs" /\ trace[p].wrote /\ trace[p].var = x

\* event p captured variable x: Set was called and returned nil
Captured(p, x) == Wrote(p, x) /\ trace[p].out = "none"

DayPolicy(obs) ==
  /\ obs.CaptureOn # ""
  /\ ~EqualFold(obs.CaptureOn, "always")
  /\ Atoi(obs.CaptureOn).ok

ObservedNames ==
  UNION {{rules[r].Observe[j].Variable : j \in 1..Len(rules[r].Observe)} :
           r \in 1..Len(rules)} \ {""}

firedTriggers(tr) ==
  LET fired == SelectSeq(tr, LAMBDA e : e.k = "when" /\ e.out = "fired")
  IN  [n \in 1..Len(fired) |-> Trigger(rules[fired[n].r], rules[fired[n].r].When[fired[n].i])]

eventRank(e) == IF e.k = "start" THEN 0 ELSE IF e.k = "obs" THEN 1 ELSE 2

\* a comes before b in the order of the loops of Evaluate
precedes(a, b) ==
  \/ a.r < b.r
  \/ a.r = b.r /\ eventRank(a) < eventRank(b)
  \/ a.r = b.r /\ eventRank(a) = eventRank(b) /\ a.i < b.i

\* C1: an Observe whose capture_on is a day-of-month integer calls Set
\* exactly when today is that day and the store held no record of the
\* variable made on today's calendar day, neither when the call started
\* nor by an earlier capture of the call; a record made earlier today is
\* left as it was, value and recorded_at, by every Observe of this kind.
IdempotentCapture ==
  /\ \A p \in ObsEvents :
       LET obs     == obsOf(p)
           before  == Get(valuesAtCall, obs.Variable)
           sameDay == before.ok /\ sameCalendarDay(before.v.RecordedAt, Now)
           earlier == \E q \in 1..(p - 1) : Wrote(q, obs.Variable)
       IN  DayPolicy(obs) /\ trace[p].out \in {"none", "Persist"} =>
             (trace[p].wrote <=>
                Day(Now) = Atoi(obs.CaptureOn).v /\ ~sameDay /\ ~earlier)
  /\ pc # "idle" =>
       \A x \in DOMAIN valuesAtCall :
         /\ sameCalendarDay(valuesAtCall[x].RecordedAt, Now)
         /\ \A p \in ObsEvents : Wrote(p, x) => DayPolicy(obsOf(p))
         => Get(values, x) = Get(valuesAtCall, x)

\* The second call of a day has met the Observe of "due" with capture_on
\* 14 on the 14th, the account figures having changed since the capture.
IdempotentCaptureWitness ==
  /\ pc = "done" /\ calls = 2 /\ rules = CaptureRules /\ err = NoError
  /\ Day(Now) = 14
  /\ "due" \in DOMAIN valuesAtCall
  /\ valuesAtCall["due"].RecordedAt < Now
  /\ sameCalendarDay(valuesAtCall["due"].RecordedAt, Now)
  /\ valuesAtCall["due"].Value \notin {Accounts["Card"], Accounts["Checking"]}
  /\ values["due"] = valuesAtCall["due"]
  /\ Cardinality({p \in ObsEvents : trace[p].var = "due" /\ ~trace[p].wrote}) = 2

\* C2: the steps of a call happen in list order (rule by rule, the Observe
\* entries of a rule before its When entries); every step after the capture
\* of a variable sees the captured value as var.<variable>, and a step
\* before it sees only what the caller or the store held at the start.
CaptureOrdering ==
  /\ \A p, q \in StepEvents : p < q => precedes(trace[p], trace[q])
  /\ \A q \in StepEvents \cup {Len(trace) + 1}, x \in ObservedNames :
       LET seen   == IF q > Len(trace) THEN Vars ELSE trace[q].seen
           writes == {p \in 1..(q - 1) : Captured(p, x)}
           last   == CHOOSE p \in writes : \A o \in writes : o <= p
           first  == IF trace = <<>> THEN Vars ELSE trace[1].seen
       IN  IF writes # {}
             THEN x \in DOMAIN seen /\ seen[x] = trace[last].val
             ELSE x \in DOMAIN seen =>
                    \/ x \in DOMAIN first /\ seen[x] = first[x]
                    \/ x \in DOMAIN valuesAtCall /\ seen[x] = valuesAtCall[x].Value

\* Rule 2 of OrderRules has captured "a" anew: the When of rule 1 ran before
\* and saw the value of the previous call, the second Observe and the When
\* of rule 2 and the When of rule 3 saw the new one.
CaptureOrderingWitness ==
  /\ pc = "done" /\ rules = OrderRules /\ err = NoError
  /\ \E p \in ObsEvents :
       /\ trace[p].r = 2 /\ trace[p].i = 1 /\ Captured(p, "a")
       /\ \E q \in WhenEvents : q < p /\ trace[q].r = 1 /\ trace[q].seen["a"] # trace[p].val
       /\ \E q \in ObsEvents : q > p /\ trace[q].r = 2 /\ trace[q].seen["a"] = trace[p].val
       /\ \E q \in WhenEvents : q > p /\ trace[q].r = 2 /\ trace[q].seen["a"] = trace[p].val
       /\ \E q \in WhenEvents : q > p /\ trace[q].r = 3 /\ trace[q].seen["a"] = trace[p].val

\* C3: an Observe without variable or value fails, and a step that fails is
\* the last step of the call: Evaluate returns the error with the name of
\* the rule of that step and the triggers of the When entries before it,
\* all of which were processed.
ErrorAbortsBatch ==
  /\ \A p \in ObsEvents :
       obsOf(p).Variable = "" \/ obsOf(p).Value = <<>> =>
         trace[p].out = "CaptureFieldMissing"
  /\ \A p \in WhenEvents :
       trace[p].out =
         whenOutcome(whenOf(p), [Accounts |-> Accounts, Vars |-> trace[p].seen, Now |-> Now])
  /\ \A p \in Events :
       trace[p].out \notin WhenPassed \cup {"none"} =>
         /\ p = Len(trace)
         /\ pc \in {"done", "idle"}
         /\ err = [kind |-> trace[p].out, rule |-> rules[trace[p].r].Name]
         /\ triggers = firedTriggers(SubSeq(trace, 1, p - 1))
         /\ \A q \in Events : trace[q].r <= trace[p].r
         /\ \A r \in 1..trace[p].r : \A w \in 1..Len(rules[r].When) :
              r < trace[p].r \/ (trace[p].k = "when" /\ w < trace[p].i) =>
                \E q \in WhenEvents : q < p /\ trace[q].r = r /\ trace[q].i = w
  /\ err.kind \notin {"none", "Canceled"} =>
       Len(trace) > 0 /\ trace[Len(trace)].out = err.kind

\* The second When of rule "breaks" names an account that does not exist:
\* one trigger of rule "fires" and one of "breaks" come back with the error.
ErrorAbortsBatchWitness ==
  /\ pc = "done" /\ rules = FailingRules
  /\ err = [kind |-> "UnknownAccount", rule |-> "breaks"]
  /\ Len(triggers) = 2
  /\ triggers[2].Rule.Name = "breaks"
  /\ trace[Len(trace)].k = "when" /\ trace[Len(trace)].i = 2

\* C4: no rule starts after the cancellation; the steps after it belong to
\* the rule that was being processed, which is completed; Evaluate then
\* returns the cancellation error with the triggers of the rules before the
\* one it did not start, all of them processed in full.
CancelBetweenRules ==
  /\ \A p, q \in Events :
       p < q /\ trace[p].k = "cancel" =>
         trace[q].k # "start" /\ trace[q].r = trace[p].r
  /\ cancelled <=> \E p \in Events : trace[p].k = "cancel"
  /\ pc = "done" /\ cancelled /\ err = NoError => ri = Len(rules) + 1
  /\ err.kind = "Canceled" =>
       /\ pc \in {"done", "idle"} /\ cancelled /\ ri <= Len(rules)
       /\ triggers = firedTriggers(trace)
       /\ \A p \in StepEvents : trace[p].r < ri
       /\ \A r \in 1..(ri - 1) :
            /\ \E p \in Events : trace[p].k = "start" /\ trace[p].r = r
            /\ \A w \in 1..Len(rules[r].When) :
                 \E p \in WhenEvents : trace[p].r = r /\ trace[p].i = w
            /\ useStore =>
                 \A o \in 1..Len(rules[r].Observe) :
                   \E p \in ObsEvents : trace[p].r = r /\ trace[p].i = o

\* The cancellation came while a rule was being processed: its remaining
\* steps ran, a trigger was produced, and the next rule was not started.
CancelBetweenRulesWitness ==
  /\ pc = "done" /\ err.kind = "Canceled" /\ Len(triggers) > 0
  /\ \E p, q \in Events :
       /\ p < q /\ trace[p].k = "cancel" /\ trace[q].k = "when" /\ trace[q].out = "fired"
       /\ \E o \in Events : o < p /\ trace[o].k = "start" /\ trace[o].r = trace[p].r

(***************************************************************************)
(* Properties of the day gates (specification SpecGate).                   *)
(***************************************************************************)
\* The entry configures this one key among the gates and the schedule.
OnlyGate(key) ==
  \A k \in {"day_of_month", "day_of_month_range", "days_of_week", "nth_weekday",
            "schedule"} \ {key} : Len(gEntry[k]) = 0

LastDay(t) == DaysInMonth(Year(t), Month(t))

\* C11 -- With day_of_month [-k], 1 <= k <= 31, and no other gate and no
\* schedule, the gate is eligible iff now's day of month is the k-th day
\* from the end of now's month; -1 is the last day of the month.
NegativeDayOfMonthGate ==
  (/\ gOut.state = "set"
   /\ OnlyGate("day_of_month")
   /\ Len(gWhen.DayOfMonth) = 1 /\ 0 - gWhen.DayOfMonth[1] \in 1..31)
  => gOut.eligible = (Day(gNow) = LastDay(gNow) + gWhen.DayOfMonth[1] + 1)

\* day is inside the range "start-end", which wraps when start > end
inDayRange(range, day) ==
  LET start == Atoi(range[1]).v
      end   == Atoi(range[3]).v
  IN  IF start <= end THEN start <= day /\ day <= end
      ELSE day >= start \/ day <= end

\* C12 -- With day_of_month_range ["start-end"] and no other gate and no
\* schedule, the gate is eligible iff now's day of month is inside the
\* range, a range with start > end wrapping over the end of the month.
DayOfMonthRangeGate ==
  (/\ gOut.state = "set"
   /\ OnlyGate("day_of_month_range")
   /\ Len(gEntry.day_of_month_range) = 1)
  => gOut.eligible = inDayRange(gEntry.day_of_month_range[1], Day(gNow))

\* C13 -- With nth_weekday "<n> <weekday>" or "last <weekday>" and no other
\* gate and no schedule, the gate is eligible iff today is that weekday and
\* is its n-th occurrence of the month (the days 7n-6 .. 7n), or its last
\* one (no day of the month lies a week later); the batch yields a trigger
\* only when the gate is eligible.
NthWeekdayGate ==
  (/\ gOut.state = "set"
   /\ OnlyGate("nth_weekday")
   /\ Len(gWhen.NthWeekday) = 2
   /\ ToLower(gWhen.NthWeekday[2]) \in DOMAIN weekdayMap
   /\ ToLower(gWhen.NthWeekday[1]) \in {"1", "2", "3", "4", "5", "last"})
  => LET nth  == ToLower(gWhen.NthWeekday[1])
         wd   == weekdayMap[ToLower(gWhen.NthWeekday[2])]
         day  == Day(gNow)
         nthOccurrence == \E n \in 1..5 : ToString(n) = nth /\ (day - 1) \div 7 + 1 = n
         lastOccurrence == nth = "last" /\ day + 7 > LastDay(gNow)
     IN  /\ gOut.eligible = (Weekday(gNow) = wd /\ (nthOccurrence \/ lastOccurrence))
         /\ ~gOut.eligible => gOut.triggers = <<>>

\* "5 Monday" on 2024-01-29, the fifth Monday of a month that has five.
NthWeekdayGateWitness ==
  /\ gOut.state = "set"
  /\ gWhen = When(CheckingLow, <<>>, <<>>, <<"5", "Monday">>, <<>>)
  /\ gNow = Date(2024, 1, 29, 12, 0, 0)
  /\ gOut.eligible
  /\ Len(gOut.triggers) = 1

(***************************************************************************)
(* Properties of Evaluate: When entries that do not parse, and the         *)
(* triggers of a call.                                                     *)
(***************************************************************************)
badSchedule(when) == Len(when.Schedule) # 0 /\ ~ParseStandard(when.Schedule).ok

badNthWeekday(when) == Len(when.NthWeekday) # 0 /\ ~parseNthWeekday(when.NthWeekday).ok

\* the step event that follows event p, if any
nextStep(p) == {q \in StepEvents : q > p /\ \A o \in StepEvents : o > p => q <= o}

\* Every When entry has been processed, and every Observe when a store is used.
BatchProcessed ==
  \A r \in 1..Len(rules) :
    /\ \A w \in 1..Len(rules[r].When) :
         \E p \in WhenEvents : trace[p].r = r /\ trace[p].i = w
    /\ useStore =>
         \A o \in 1..Len(rules[r].Observe) :
           \E p \in ObsEvents : trace[p].r = r /\ trace[p].i = o

\* The When entries that satisfy Unparsable are passed over: not eligible,
\* no error, no trigger, no change of the variables the next step sees, and
\* a call that ends without error has processed the whole batch.
passedOver(Unparsable(_)) ==
  /\ \A p \in WhenEvents :
       Unparsable(whenOf(p)) =>
         /\ trace[p].out \in {"gated", "empty"}
         /\ p = Len(trace) => err.kind \in {"none", "Canceled"}
         /\ \A q \in nextStep(p) : trace[q].seen = trace[p].seen
  /\ pc = "done" /\ err = NoError =>
       /\ triggers = firedTriggers(trace)
       /\ BatchProcessed

unparsableGate(when) == badSchedule(when) \/ badNthWeekday(when)

unparsableGateInUse(when) ==
  badSchedule(when) \/ (Len(when.Schedule) = 0 /\ badNthWeekday(when))

\* C14 (as stated) -- a When whose schedule does not parse, or whose
\* nth_weekday does not parse, is never eligible; Evaluate reports no error
\* for it and goes on with the other When entries and rules.
UnparsableNeverEligible == passedOver(unparsableGate)

\* C14 (amended) -- a When whose schedule does not parse, or which has no
\* schedule and whose nth_weekday does not parse, is never eligible;
\* Evaluate reports no error for it and goes on with the other When
\* entries and rules.
UnparsableGateSkipped == passedOver(unparsableGateInUse)

\* UnparsableRules evaluated with a store at 09:00 on the 14th: the two
\* entries that do not parse are passed over, the entries between and
\* after them and the next rule fire.
UnparsableGateSkippedWitness ==
  /\ pc = "done" /\ rules = UnparsableRules /\ err = NoError /\ useStore
  /\ Now = Date(2024, 1, 14, 9, 0, 0)
  /\ Len(triggers) = 3
  /\ triggers[3].Rule.Name = "after"
  /\ \E p, q \in WhenEvents :
       /\ trace[p].i = 1 /\ badSchedule(whenOf(p)) /\ trace[p].out = "gated"
       /\ trace[q].i = 3 /\ badNthWeekday(whenOf(q)) /\ trace[q].out = "gated"

\* the step event of When entry w of rule r
whenEvent(r, w) == CHOOSE p \in WhenEvents : trace[p].r = r /\ trace[p].i = w

\* The (rule, When) pairs that fire: a condition, an eligible gate at the
\* instant of the snapshot, and a condition that is true of the accounts
\* and of the variables captured so far.
firingPairs ==
  {pr \in UNION {{<<r, w>> : w \in 1..Len(rules[r].When)} : r \in 1..Len(rules)} :
     LET when == rules[pr[1]].When[pr[2]]
         seen == trace[whenEvent(pr[1], pr[2])].seen
         c    == evaluateCondition(when.Condition,
                                   [Accounts |-> Accounts, Vars |-> seen, Now |-> Now])
     IN  /\ Len(when.Condition) # 0
         /\ shouldEvaluate(when, Now)
         /\ c.ok /\ c.v}

\* the number of pairs of S before pr in rule order, then When order
pairsBefore(S, pr) ==
  Cardinality({o \in S : o[1] < pr[1] \/ (o[1] = pr[1] /\ o[2] < pr[2])})

\* C15 -- A call that returns no error returns one trigger for each firing
\* (rule, When) pair and no other, in rule order and in When order within
\* a rule, each with the rule and a message of the rule's name and the
\* text of the condition; the Observe entries of every rule, with or
\* without When entries, have been processed.
TriggersExact ==
  pc = "done" /\ err = NoError =>
    /\ BatchProcessed
    /\ Len(triggers) = Cardinality(firingPairs)
    /\ \A pr \in firingPairs :
         LET t == triggers[pairsBefore(firingPairs, pr) + 1]
         IN  /\ t.Rule = rules[pr[1]]
             /\ t.Message = <<"Rule", rules[pr[1]].Name, "triggered:",
                              rules[pr[1]].When[pr[2]].Condition>>

\* MultiObserveRules with a store: both When entries of the first rule
\* fire, then the one of the second.
TriggersExactWitness ==
  /\ pc = "done" /\ err = NoError /\ rules = MultiObserveRules /\ useStore
  /\ Len(triggers) = 3
  /\ triggers[1].Rule.Name = "multi-observe" /\ triggers[1].Message[4] = AlessB
  /\ triggers[2].Rule.Name = "multi-observe" /\ triggers[2].Message[4] = CheckingHigh
  /\ triggers[3].Rule.Name = "after"

(***************************************************************************)
(* The day gates together (specification SpecGate).                        *)
(***************************************************************************)
\* day_of_month: a positive value is the day, a negative one counts from
\* the end of the month
dayOfMonthIs(days, t) ==
  \E i \in 1..Len(days) :
    \/ days[i] = Day(t)
    \/ days[i] < 0 /\ Day(t) = LastDay(t) + days[i] + 1

dayOfMonthRangeIs(ranges, t) == \E i \in 1..Len(ranges) : inDayRange(ranges[i], Day(t))

dayOfWeekIs(days, t) ==
  \E i \in 1..Len(days), name \in DOMAIN weekdayMap :
    ToLower(days[i]) = name /\ weekdayMap[name] = Weekday(t)

nthWeekdayIs(expr, t) ==
  /\ Len(expr) = 2
  /\ \E name \in DOMAIN weekdayMap : ToLower(expr[2]) = name /\ weekdayMap[name] = Weekday(t)
  /\ \/ ToLower(expr[1]) = "last" /\ Day(t) + 7 > LastDay(t)
     \/ \E n \in 1..5 : ToLower(expr[1]) = ToString(n) /\ (Day(t) - 1) \div 7 + 1 = n

\* C16 -- A When without schedule is eligible iff each of its day gates
\* that is configured (day_of_month, day_of_month_range, days_of_week,
\* nth_weekday) matches now; a gate left empty does not restrict.
DayGatesConjoined ==
  (gOut.state = "set" /\ Len(gEntry.schedule) = 0) =>
    gOut.eligible =
      (/\ Len(gEntry.day_of_month) = 0 \/ dayOfMonthIs(gEntry.day_of_month, gNow)
       /\ Len(gEntry.day_of_month_range) = 0
            \/ dayOfMonthRangeIs(gEntry.day_of_month_range, gNow)
       /\ Len(gEntry.days_of_week) = 0 \/ dayOfWeekIs(gEntry.days_of_week, gNow)
       /\ Len(gEntry.nth_weekday) = 0 \/ nthWeekdayIs(gEntry.nth_weekday, gNow))

(***************************************************************************)
(* The daemon: Service.Run and Service.tick (service.go 143-233), with     *)
(* Evaluate running inside the tick.                                       *)
(***************************************************************************)
\* Ticker firings in one behaviour.
MaxFirings == 1

TimeOfDay(h, m) == h * 3600 + m * 60

Window(start, end) == [DayStart |-> start, DayEnd |-> end]

\* cfg.DayStart and cfg.DayEnd of the configurations of the model
ServiceCfgs ==
  { NoWindow, Window(TimeOfDay(6, 0), TimeOfDay(22, 0)), Window(TimeOfDay(6, 0), 0),
    Window(0, TimeOfDay(22, 0)) }

\* what time.Now() returns in a tick
ServiceNows ==
  { Date(2024, 1, 14, 5, 59, 0), Date(2024, 1, 14, 6, 0, 0),
    Date(2024, 1, 14, 21, 59, 0), Date(2024, 1, 14, 22, 0, 0) }

\* what the budget holds when GetAccounts succeeds
ServiceAccounts == { ("Checking" :> 60000) @@ ("Card" :> 99000) }

\* what the rules directory holds: nothing, or the rules of its files
ServiceDirs == {<<>>, FailingRules, MultiObserveRules}

LoadDir(dir) ==
  IF Len(dir) = 0 THEN [ok |-> FALSE, rules |-> <<>>] ELSE [ok |-> TRUE, rules |-> dir]

todayOffset(now) == Hour(now) * 3600 + Minute(now) * 60 + (now % 60)

\* Variant of withinEvalWindow whose window includes its end.
withinEvalWindowClosed(c, now) ==
  IF c.DayStart = 0 /\ c.DayEnd = 0 THEN TRUE
  ELSE IF c.DayStart > 0 /\ todayOffset(now) < c.DayStart THEN FALSE
  ELSE IF c.DayEnd > 0 /\ todayOffset(now) > c.DayEnd THEN FALSE
  ELSE TRUE

withinEvalWindow(c, now) ==
  IF c.DayStart = 0 /\ c.DayEnd = 0 THEN TRUE
  ELSE IF c.DayStart > 0 /\ todayOffset(now) < c.DayStart THEN FALSE
  ELSE IF c.DayEnd > 0 /\ todayOffset(now) >= c.DayEnd THEN FALSE
  ELSE TRUE

\* history records
Called(op, subject, message, ok) ==
  [op |-> op, subject |-> subject, message |-> message, ok |-> ok]

Tick(by, now) ==
  [by |-> by, now |-> now, log |-> <<>>, returned |-> <<>>, err |-> "none", done |-> FALSE,
   values0 |-> values, file0 |-> file]

logged(call) == [ticks EXCEPT ![Len(ticks)].log = Append(@, call)]

ended(hist, e) == [hist EXCEPT ![Len(hist)].err = e, ![Len(hist)].done = TRUE]

\* Variant of afterTick in which an error of the tick ends Run.
afterTickStop(e) == IF e = "none" THEN "select" ELSE "returned"

\* Run after tick has returned e: the error is logged and Run goes (back)
\* to its select.
afterTick(e) == "select"

\* New and Run up to the first tick, with the store NewStore opened.
InitService ==
  /\ file = AbsentFile
  /\ values = load(AbsentFile).values
  /\ storeOpen = load(AbsentFile).ok
  /\ EvalIdle /\ GateIdle /\ ClientsIdle /\ LintIdle /\ ResolveIdle
  /\ cfg \in ServiceCfgs
  /\ spc = "start" /\ tickerC = FALSE /\ fires = 0
  /\ tickNow = 0 /\ ni = 0 /\ runErr = "none" /\ ticks = <<>>

\* The ticker delivers a firing into ticker.C (a firing that finds the
\* channel full is dropped).
TickerFire ==
  /\ spc \notin {"off", "returned"}
  /\ ~tickerC
  /\ fires < MaxFirings
  /\ tickerC' = TRUE
  /\ fires' = fires + 1
  /\ UNCHANGED <<cfg, spc, tickNow, ni, runErr, ticks>>
  /\ UNCHANGED <<storeVars, evalVars, gateVars, clientVars, lintVars, resolveVars>>

\* ctx is cancelled while Evaluate is not running (Cancel is the cancellation
\* while it runs).
CtxCancel ==
  /\ spc \notin {"off", "returned"}
  /\ pc \in {"idle", "done"}
  /\ ~cancelled
  /\ cancelled' = TRUE
  /\ UNCHANGED <<pc, rules, useStore, Accounts, Vars, Now, ri, oi, wi, triggers, err, calls,
                 trace, valuesAtCall>>
  /\ UNCHANGED <<storeVars, gateVars, clientVars, serviceVars, lintVars, resolveVars>>

\* s.tick(ctx) is called, at startup or on case <-ticker.C, and checks the
\* evaluation window.
TickStart ==
  /\ \/ spc = "start" /\ UNCHANGED tickerC
     \/ spc = "select" /\ tickerC /\ tickerC' = FALSE
  /\ \E now \in {t \in ServiceNows : t >= tickNow} :
       LET rec == Tick(IF spc = "start" THEN "startup" ELSE "ticker", now)
       IN  /\ tickNow' = now
           /\ IF ~withinEvalWindow(cfg, now)
                THEN /\ ticks' = ended(Append(ticks, rec), "none")
                     /\ spc' = afterTick("none")
                ELSE /\ ticks' = Append(ticks, rec)
                     /\ spc' = "fetch"
  /\ UNCHANGED <<cfg, fires, ni, runErr>>
  /\ UNCHANGED <<storeVars, evalVars, gateVars, clientVars, lintVars, resolveVars>>

\* s.ynab.GetAccounts and BalanceMap; the request fails when ctx is
\* cancelled, and may fail otherwise.
TickFetch ==
  /\ spc = "fetch"
  /\ \E got \in {EmptyMap} \cup {acc \in ServiceAccounts : ~cancelled} :
       IF got = EmptyMap
         THEN /\ ticks' = ended(logged(Called("GetAccounts", "", <<>>, FALSE)), "GetAccounts")
              /\ spc' = afterTick("GetAccounts")
              /\ UNCHANGED Accounts
         ELSE /\ ticks' = logged(Called("GetAccounts", "", <<>>, TRUE))
              /\ spc' = "load"
              /\ Accounts' = got
  /\ UNCHANGED <<cfg, tickerC, fires, tickNow, ni, runErr>>
  /\ UNCHANGED <<pc, rules, useStore, Vars, Now, ri, oi, wi, triggers, err, cancelled, calls,
                 trace, valuesAtCall>>
  /\ UNCHANGED <<storeVars, gateVars, clientVars, lintVars, resolveVars>>

\* rules.LoadDir, the snapshot of the store, and the call of Evaluate.
TickLoad ==
  /\ spc = "load"
  /\ \E dir \in ServiceDirs :
       LET loaded == LoadDir(dir)
       IN  IF ~loaded.ok
             THEN /\ ticks' = ended(logged(Called("LoadDir", "", <<>>, FALSE)), "LoadDir")
                  /\ spc' = afterTick("LoadDir")
                  /\ UNCHANGED <<pc, rules, useStore, Vars, Now, ri, oi, wi, triggers, err,
                                 calls, trace, valuesAtCall>>
             ELSE /\ ticks' = [logged(Called("LoadDir", "", <<>>, TRUE))
                                 EXCEPT ![Len(ticks)].log = Append(@, Called("Evaluate", "", <<>>, TRUE))]
                  /\ spc' = "evaluate"
                  /\ rules' = loaded.rules
                  /\ Now' = tickNow
                  /\ useStore' = storeOpen
                  /\ Vars' = IF storeOpen THEN Snapshot(values) ELSE EmptyMap
                  /\ pc' = "rule"
                  /\ ri' = 1 /\ oi' = 0 /\ wi' = 0
                  /\ triggers' = <<>>
                  /\ err' = NoError
                  /\ calls' = calls + 1
                  /\ trace' = <<>>
                  /\ valuesAtCall' = values
  /\ UNCHANGED <<cfg, tickerC, fires, tickNow, ni, runErr, Accounts, cancelled>>
  /\ UNCHANGED <<storeVars, gateVars, clientVars, lintVars, resolveVars>>

\* Evaluate has returned (triggers, err) to tick.
TickEvaluated ==
  /\ spc = "evaluate"
  /\ pc = "done"
  /\ pc' = "idle"
  /\ LET hist == [ticks EXCEPT ![Len(ticks)].returned = triggers]
     IN  IF err.kind # "none"
           THEN /\ ticks' = ended(hist, err.kind)
                /\ spc' = afterTick(err.kind)
                /\ UNCHANGED ni
           ELSE /\ ticks' = hist
                /\ spc' = "notify"
                /\ ni' = 1
  /\ UNCHANGED <<cfg, tickerC, fires, tickNow, runErr>>
  /\ UNCHANGED <<rules, useStore, Accounts, Vars, Now, ri, oi, wi, triggers, err, cancelled,
                 calls, trace, valuesAtCall>>
  /\ UNCHANGED <<storeVars, gateVars, clientVars, lintVars, resolveVars>>

\* One iteration of the loop over triggers: s.notifier.Notify, whose error
\* is logged; after the last one tick returns nil.
TickNotify ==
  /\ spc = "notify"
  /\ IF ni > Len(triggers)
       THEN /\ ticks' = ended(ticks, "none")
            /\ spc' = afterTick("none")
            /\ UNCHANGED ni
       ELSE /\ \E ok \in BOOLEAN :
                 ticks' = logged(Called("Notify", triggers[ni].Rule.Name, triggers[ni].Message, ok))
            /\ ni' = ni + 1
            /\ UNCHANGED spc
  /\ UNCHANGED <<cfg, tickerC, fires, tickNow, runErr>>
  /\ UNCHANGED <<storeVars, evalVars, gateVars, clientVars, lintVars, resolveVars>>

\* case <-ctx.Done() of the select of Run
RunDone ==
  /\ spc = "select"
  /\ cancelled
  /\ spc' = "returned"
  /\ runErr' = "Canceled"
  /\ UNCHANGED <<cfg, tickerC, fires, tickNow, ni, ticks>>
  /\ UNCHANGED <<storeVars, evalVars, gateVars, clientVars, lintVars, resolveVars>>

NextService ==
  \/ TickerFire \/ CtxCancel \/ TickStart \/ TickFetch \/ TickLoad
  \/ RuleStart \/ ObserveStep \/ WhenStep \/ Cancel
  \/ TickEvaluated \/ TickNotify \/ RunDone

SpecService == InitService /\ [][NextService]_allVars

(***************************************************************************)
(* Properties of the daemon (specification SpecService).                   *)
(***************************************************************************)
outsideWindow(c, now) ==
  \/ c.DayStart > 0 /\ todayOffset(now) < c.DayStart
  \/ c.DayEnd > 0 /\ todayOffset(now) >= c.DayEnd

\* the store when tick k was over (or now, while it is the last one)
storeAfter(k) ==
  IF k = Len(ticks) THEN <<values, file>> ELSE <<ticks[k + 1].values0, ticks[k + 1].file0>>

SixToTen == Window(TimeOfDay(6, 0), TimeOfDay(22, 0))

\* C17: a tick at an instant whose time of day is before DayStart (when
\* DayStart > 0) or at or after DayEnd (when DayEnd > 0) returns at once:
\* it calls neither GetAccounts nor LoadDir nor Evaluate nor Notify and
\* leaves the store as it was; any other tick goes on to fetch the
\* balances.  With the window 06:00-22:00, 05:59 and 22:00 are outside,
\* 06:00 and 21:59 inside.
EvalWindow ==
  /\ \A k \in 1..Len(ticks) :
       IF outsideWindow(cfg, ticks[k].now)
         THEN /\ ticks[k].done /\ ticks[k].err = "none"
              /\ ticks[k].log = <<>> /\ ticks[k].returned = <<>>
              /\ storeAfter(k) = <<ticks[k].values0, ticks[k].file0>>
         ELSE \/ ticks[k].log # <<>> /\ ticks[k].log[1].op = "GetAccounts"
              \/ k = Len(ticks) /\ spc = "fetch"
  /\ ~withinEvalWindow(SixToTen, Date(2024, 1, 14, 5, 59, 0))
  /\ withinEvalWindow(SixToTen, Date(2024, 1, 14, 6, 0, 0))
  /\ withinEvalWindow(SixToTen, Date(2024, 1, 14, 21, 59, 0))
  /\ ~withinEvalWindow(SixToTen, Date(2024, 1, 14, 22, 0, 0))

\* a tick at 22:00 that the window 06:00-22:00 skipped, after a tick that
\* captured an observation
EvalWindowWitness ==
  /\ cfg = SixToTen
  /\ Len(ticks) = 2
  /\ ticks[2].now = Date(2024, 1, 14, 22, 0, 0) /\ ticks[2].done
  /\ ticks[1].log # <<>> /\ ticks[2].values0 # EmptyMap

\* the Notify calls of tick k, in order
notifies(k) == SelectSeq(ticks[k].log, LAMBDA c : c.op = "Notify")

\* C18: when a tick is over, its Notify calls are one per trigger that
\* Evaluate returned in it, in the order of the triggers, with the rule name
\* as subject and the trigger message as message (a call that failed is in
\* the list once, like one that succeeded).
NotifyPerTrigger ==
  \A k \in 1..Len(ticks) :
    ticks[k].done =>
      /\ Len(notifies(k)) = Len(ticks[k].returned)
      /\ \A i \in 1..Len(notifies(k)) :
           /\ notifies(k)[i].subject = ticks[k].returned[i].Rule.Name
           /\ notifies(k)[i].message = ticks[k].returned[i].Message

\* C19: Run makes its first tick at startup, before it receives anything
\* from the ticker, and one tick for every firing it receives; after a tick
\* that failed Run is back at its select (or has returned since, the context
\* being cancelled), where a firing in ticker.C can start the next tick; Run
\* returns only with the context cancelled, and returns the context's error.
RunLoop ==
  /\ spc # "start" => Len(ticks) >= 1 /\ ticks[1].by = "startup"
  /\ \A k \in 2..Len(ticks) : ticks[k].by = "ticker"
  /\ Len(ticks) = (IF spc = "start" THEN 0 ELSE 1) + fires - (IF tickerC THEN 1 ELSE 0)
  /\ \A k \in 1..Len(ticks) :
       /\ k < Len(ticks) => ticks[k].done
       /\ ticks[k].done /\ k = Len(ticks) => spc \in {"select", "returned"}
  /\ spc = "select" /\ tickerC => ENABLED TickStart
  /\ spc = "returned" => cancelled /\ runErr = "Canceled"
  /\ spc # "returned" => runErr = "none"

\* a tick that failed in Evaluate, then a tick by the ticker that failed in
\* LoadDir, then the cancellation and the return of Run
RunLoopWitness ==
  /\ Len(ticks) = 2
  /\ ticks[1].err = "UnknownAccount"
  /\ ticks[2].by = "ticker" /\ ticks[2].err = "LoadDir"
  /\ spc = "returned"

(***************************************************************************)
(* Lint (lint.go 1-121).  An issue is its message and the value the        *)
(* message quotes, as tokens.                                              *)
(***************************************************************************)
Issue(msg, arg) == [msg |-> msg, arg |-> arg]

\* the i of the search loop of nextEval
LintHorizonDays == 365

Time(t) == [zero |-> FALSE, t |-> t]

ZeroTime == [zero |-> TRUE, t |-> 0]

lintWhen(when) ==
  LET badDays     == SelectSeq(when.DayOfMonth, LAMBDA d : d < 1 \/ d > 31)
      badWeekdays == SelectSeq(when.DaysOfWeek, LAMBDA d : ToLower(d) \notin DOMAIN weekdayMap)
  IN  (IF Len(when.Condition) = 0
         THEN <<Issue("condition is empty; rule will never fire", <<>>)>> ELSE <<>>)
      \o [i \in 1..Len(badDays) |->
            Issue("day_of_month value is out of range 1-31", <<ToString(badDays[i])>>)]
      \o [i \in 1..Len(badWeekdays) |->
            Issue("days_of_week value is invalid", <<badWeekdays[i]>>)]
      \o (IF Len(when.NthWeekday) # 0 /\ ~parseNthWeekday(when.NthWeekday).ok
            THEN <<Issue("nth_weekday value is invalid", when.NthWeekday)>> ELSE <<>>)
      \o (IF Len(when.Schedule) # 0 /\ ~ParseStandard(when.Schedule).ok
            THEN <<Issue("schedule invalid cron", when.Schedule)>> ELSE <<>>)
      \o (IF /\ Len(when.Schedule) # 0
             /\ (Len(when.DayOfMonth) > 0 \/ Len(when.DaysOfWeek) > 0 \/ Len(when.NthWeekday) # 0)
            THEN <<Issue("schedule present; day/week gates will be ignored", <<>>)>> ELSE <<>>)

matchNth(expr, t) == IF Len(expr) = 0 THEN TRUE ELSE matchesNthWeekday(expr, t)

\* Variant of nextEvalMatch that leaves out the weekday gate.
nextEvalMatchNoWeekday(when, t) ==
  /\ matchesDayOfMonth(when.DayOfMonth, Day(t))
  /\ matchNth(when.NthWeekday, t)

\* The condition of the search loop of nextEval for the day of instant t.
nextEvalMatch(when, t) ==
  /\ matchesDayOfMonth(when.DayOfMonth, Day(t))
  /\ matchesDayOfWeek(when.DaysOfWeek, Weekday(t))
  /\ matchNth(when.NthWeekday, t)

\* The day offsets i of the search loop of nextEval at which the day gates
\* match.
nextEvalDays(when, now) ==
  {i \in 0..LintHorizonDays : nextEvalMatch(when, now + i * SecondsPerDay)}

\* Variant of clampApprox that never moves the estimate.
clampApproxNever(approx, now, pollInterval) == approx

\* if approx.Before(now) { approx = now.Add(pollInterval) }
clampApprox(approx, now, pollInterval) ==
  IF approx < now THEN now + pollInterval ELSE approx

nextEval(when, now, pollInterval) ==
  IF Len(when.Schedule) # 0 THEN
    LET sched == ParseStandard(when.Schedule)
    IN  IF ~sched.ok THEN [NextEval |-> ZeroTime, HasNext |-> FALSE]
        ELSE LET next == cronNext(sched, now)
             IN  [NextEval |-> IF next.ok THEN Time(next.t) ELSE ZeroTime, HasNext |-> TRUE]
  ELSE IF Len(when.DayOfMonth) = 0 /\ Len(when.DaysOfWeek) = 0 /\ Len(when.NthWeekday) = 0
    THEN [NextEval |-> Time(now + pollInterval), HasNext |-> TRUE]
  ELSE LET found == nextEvalDays(when, now)
       IN  IF found = {} THEN [NextEval |-> ZeroTime, HasNext |-> FALSE]
           ELSE LET i      == CHOOSE j \in found : \A k \in found : j <= k
                    approx == DayNumber(now + i * SecondsPerDay) * SecondsPerDay + pollInterval
                IN  [NextEval |-> Time(clampApprox(approx, now, pollInterval)),
                     HasNext |-> TRUE]

\* r.When as lint.go reads it: one When (the zero When for a rule without).
soleWhen(r) == IF Len(r.When) = 0 THEN Ungated(<<>>) ELSE r.When[1]

\* The LintResult of rule i of the loaded rules.
lintRule(rs, i, now, pollInterval) ==
  LET r    == rs[i]
      next == nextEval(soleWhen(r), now, pollInterval)
  IN  [Name     |-> r.Name,
       Issues   |-> (IF r.Name = "" THEN <<Issue("rule has no name", <<>>)>> ELSE <<>>)
                    \o (IF r.Name # "" /\ \E j \in 1..(i - 1) : rs[j].Name = r.Name
                          THEN <<Issue("duplicate rule name", <<>>)>> ELSE <<>>)
                    \o lintWhen(soleWhen(r)),
       NextEval |-> next.NextEval,
       HasNext  |-> next.HasNext]

LintWithPoll(dir, now, pollInterval) ==
  LET loaded == LoadDir(dir)
  IN  IF ~loaded.ok THEN [ok |-> FALSE, results |-> <<>>]
      ELSE [ok |-> TRUE,
            results |-> [i \in 1..Len(loaded.rules) |-> lintRule(loaded.rules, i, now, pollInterval)]]

\* rule files that are linted: the file of TestLintReportsNextEvalAndConflicts
\* and others, every rule with at most one When
LintTestRules ==
  << Rule("cron_and_day", <<>>,
          <<When(CheckingLow, <<1>>, <<>>, <<>>, <<"0", "9", "14", "*", "*">>)>>),
     Rule("empty_condition", <<>>, <<Ungated(<<>>)>>),
     Rule("bad_refs", <<Observe("", "captured", Due("CC"))>>,
          <<Ungated(<<"var.", "missing_var", "<", "10">>)>>) >>

LintObservedRules ==
  << Rule("observed", <<Observe("", "a", <<"10">>), Observe("14", "due", Due("Card"))>>,
          <<Ungated(<<"var.", "due", ">", "var.", "a">>)>>),
     Rule("observed", <<>>, <<Ungated(<<"var.", "a", ">", "0">>)>>),
     Rule("", <<>>, <<>>) >>

LintDayRules ==
  << Rule("days", <<>>, <<When(CheckingLow, <<0, 31, 32, 0 - 1, 0 - 31, 0 - 32>>, <<>>, <<>>, <<>>)>>),
     Rule("last-day", <<>>, <<When(CheckingLow, <<0 - 1>>, <<>>, <<>>, <<>>)>>),
     Rule("weekdays", <<>>, <<When(CheckingHigh, <<>>, <<"Mon", "Funday">>, <<"2", "Funday">>, <<>>)>>) >>

LintGatedRules ==
  << Rule("day-14", <<>>, <<When(CheckingLow, <<14>>, <<>>, <<>>, <<>>)>>),
     Rule("day-31-monday", <<>>, <<When(CheckingLow, <<31>>, <<"monday">>, <<>>, <<>>)>>),
     Rule("fifth-friday", <<>>, <<When(CheckingLow, <<>>, <<>>, <<"5", "Friday">>, <<>>)>>),
     Rule("never", <<>>, <<When(CheckingLow, <<30>>, <<>>, <<"1", "Monday">>, <<>>)>>),
     Rule("bad-cron", <<>>, <<When(CheckingLow, <<>>, <<>>, <<>>, <<"61", "9", "14", "*", "*">>)>>) >>

\* rules whose "when" is a list in which a later entry has a schedule
LintScheduledRules ==
  << Rule("later-first", <<>>,
          <<When(CheckingLow, <<>>, <<>>, <<>>, <<"0", "9", "14", "*", "*">>),
            When(CheckingHigh, <<>>, <<>>, <<>>, <<"0", "9", "*", "*", "1">>)>>),
     Rule("sooner-first", <<>>,
          <<When(CheckingLow, <<>>, <<>>, <<>>, <<"0", "9", "*", "*", "1">>),
            When(CheckingHigh, <<>>, <<>>, <<>>, <<"0", "9", "14", "*", "*">>)>>),
     Rule("second-scheduled", <<>>,
          <<Ungated(CheckingLow),
            When(CheckingHigh, <<15>>, <<>>, <<>>, <<"0", "9", "14", "*", "*">>)>>),
     Rule("free", <<>>, <<Ungated(CheckingLow), Ungated(CheckingHigh)>>) >>

LintDirs ==
  {<<>>, LintTestRules, LintObservedRules, LintDayRules, LintGatedRules, LintScheduledRules,
   FailingRules}

LintNows ==
  { Date(2024, 3, 10, 9, 0, 0), Date(2024, 1, 14, 0, 0, 0), Date(2024, 1, 14, 0, 0, 30),
    Date(2024, 1, 14, 23, 59, 30), Date(2024, 2, 29, 12, 0, 0) }

\* time.Minute and time.Hour
LintPolls == {60, 3600}

InitLint ==
  /\ file = AbsentFile /\ values = EmptyMap /\ storeOpen = FALSE
  /\ EvalIdle /\ GateIdle /\ ClientsIdle /\ ServiceIdle /\ ResolveIdle
  /\ lDir \in LintDirs
  /\ lNow \in LintNows
  /\ lPoll \in LintPolls
  /\ lOut = [state |-> "unset"]

\* LintWithPoll(dir, now, pollInterval)
LintApply ==
  /\ lOut.state = "unset"
  /\ lOut' = [state |-> "set", lint |-> LintWithPoll(lDir, lNow, lPoll)]
  /\ UNCHANGED <<lDir, lNow, lPoll, storeVars, evalVars, gateVars, clientVars, serviceVars,
                 resolveVars>>

NextLint == LintApply

SpecLint == InitLint /\ [][NextLint]_allVars

(***************************************************************************)
(* Properties of lint (specification SpecLint).                            *)
(***************************************************************************)
\* the names after "var." in a condition
referenced(cond) == {cond[j + 1] : j \in {k \in 1..(Len(cond) - 1) : cond[k] = "var."}}

referencedBy(r) == UNION {referenced(r.When[w].Condition) : w \in 1..Len(r.When)}

observedBy(r) == {r.Observe[j].Variable : j \in 1..Len(r.Observe)}

hasIssue(res, issue) == \E j \in 1..Len(res.Issues) : res.Issues[j] = issue

\* C20: in the result of lint, the issues of a rule hold
\* `condition references unknown variable "<name>"` for a name that one of
\* its conditions references as var.<name> exactly when no Observe entry of
\* that rule has that name as its variable.
UnknownVariableReported ==
  (lOut.state = "set" /\ lOut.lint.ok) =>
    \A i \in 1..Len(lDir) :
      \A name \in referencedBy(lDir[i]) :
        hasIssue(lOut.lint.results[i],
                 Issue("condition references unknown variable", <<name>>))
          <=> name \notin observedBy(lDir[i])

\* C21: lint reports the day_of_month issue for a value d of a rule exactly
\* when d = 0, d > 31 or d < -31; the values -31..-1 are accepted.
DayOfMonthLint ==
  (lOut.state = "set" /\ lOut.lint.ok) =>
    \A i \in 1..Len(lDir) :
      \A w \in 1..Len(lDir[i].When) :
        \A k \in 1..Len(lDir[i].When[w].DayOfMonth) :
          LET d == lDir[i].When[w].DayOfMonth[k]
          IN  hasIssue(lOut.lint.results[i],
                       Issue("day_of_month value is out of range 1-31", <<ToString(d)>>))
                <=> (d = 0 \/ d > 31 \/ d < 0 - 31)

\* the rules of the linted directory whose When has no schedule and at least
\* one day gate
dayGatedRules ==
  {i \in 1..Len(lDir) :
     LET w == soleWhen(lDir[i])
     IN  /\ Len(w.Schedule) = 0
         /\ (Len(w.DayOfMonth) > 0 \/ Len(w.DaysOfWeek) > 0 \/ Len(w.NthWeekday) # 0)}

\* the day offsets in now..now+365 days at which the Schedule Gate is eligible
eligibleDays(w) ==
  {i \in 0..LintHorizonDays : shouldEvaluate(w, lNow + i * SecondsPerDay)}

firstDay(S) == CHOOSE j \in S : \A k \in S : j <= k

startOfDay(t) == DayNumber(t) * SecondsPerDay

Later(a, b) == IF a < b THEN b ELSE a

\* C22 as stated: for a day-gated rule without schedule the estimate is
\* startOfDay(D) + pollInterval for the first day D of the horizon on which
\* the gate is eligible, raised to now + pollInterval when D is today; with
\* no such day there is no estimate.
NextEvalDayGated ==
  (lOut.state = "set" /\ lOut.lint.ok) =>
    \A i \in dayGatedRules :
      LET days == eligibleDays(soleWhen(lDir[i]))
          res  == lOut.lint.results[i]
      IN  IF days = {} THEN ~res.HasNext
          ELSE LET D   == firstDay(days)
                   est == startOfDay(lNow + D * SecondsPerDay) + lPoll
               IN  /\ res.HasNext
                   /\ res.NextEval = Time(IF D = 0 THEN Later(est, lNow + lPoll) ELSE est)

\* C22, amended: the estimate is startOfDay(D) + pollInterval unless that
\* instant is before now, in which case it is now + pollInterval; it is
\* never before now, and may be before now + pollInterval.
NextEvalDayGatedFromNow ==
  (lOut.state = "set" /\ lOut.lint.ok) =>
    \A i \in dayGatedRules :
      LET days == eligibleDays(soleWhen(lDir[i]))
          res  == lOut.lint.results[i]
      IN  IF days = {} THEN ~res.HasNext
          ELSE LET est == startOfDay(lNow + firstDay(days) * SecondsPerDay) + lPoll
               IN  /\ res.HasNext
                   /\ res.NextEval = Time(IF est < lNow THEN lNow + lPoll ELSE est)
                   /\ res.NextEval.t >= lNow

\* lint half a minute after midnight of a 14th with a poll interval of one
\* minute: the rule gated on the 14th is estimated at 00:01:00, the rule
\* whose gates never hold together has no estimate
NextEvalDayGatedWitness ==
  /\ lOut.state = "set"
  /\ lDir = LintGatedRules /\ lNow = Date(2024, 1, 14, 0, 0, 30) /\ lPoll = 60
  /\ lOut.lint.results[1].NextEval = Time(Date(2024, 1, 14, 0, 1, 0))
  /\ ~lOut.lint.results[4].HasNext

\* the next cron instants after now of the When entries of r that have a
\* schedule (one that parses and has a next instant)
cronInstants(r) ==
  {cronNext(ParseStandard(r.When[w].Schedule), lNow).t :
     w \in {v \in 1..Len(r.When) :
              /\ Len(r.When[v].Schedule) # 0
              /\ ParseStandard(r.When[v].Schedule).ok
              /\ cronNext(ParseStandard(r.When[v].Schedule), lNow).ok}}

anyScheduled(r) == \E w \in 1..Len(r.When) : Len(r.When[w].Schedule) # 0

gateFree(r) ==
  \A w \in 1..Len(r.When) :
    /\ Len(r.When[w].DayOfMonth) = 0
    /\ Len(r.When[w].DaysOfWeek) = 0
    /\ Len(r.When[w].NthWeekday) = 0

\* C23: for a rule with a When that has a schedule, the estimate is the
\* soonest of the next cron instants after now of its scheduled When
\* entries, whatever its day gates; for a rule without schedule whose When
\* entries have no day gate, the estimate is now + pollInterval.
NextEvalPrecedence ==
  (lOut.state = "set" /\ lOut.lint.ok) =>
    \A i \in 1..Len(lDir) :
      LET r   == lDir[i]
          res == lOut.lint.results[i]
      IN  IF anyScheduled(r)
            THEN cronInstants(r) # {} =>
                   /\ res.HasNext
                   /\ res.NextEval = Time(firstDay(cronInstants(r)))
                   /\ res.NextEval.t > lNow
          ELSE gateFree(r) => res.HasNext /\ res.NextEval = Time(lNow + lPoll)

(***************************************************************************)
(* The estimator of lint against the schedule gate (specification          *)
(* SpecGate).                                                              *)
(***************************************************************************)
\* Days after the instant of the gate on which the two are compared.
AgreeDays == 31

\* C24: for a When without schedule, as loaded from an entry with any of
\* day_of_month (positive or negative), day_of_month_range, days_of_week and
\* nth_weekday, the condition of the estimator's search loop holds of the
\* day of an instant exactly when the Schedule Gate is eligible at that
\* instant, and of each of the days that follow; so the first day the
\* search loop finds from that instant on is the first day on which the gate
\* is eligible.
EstimatorAgreesWithGate ==
  (gOut.state = "set" /\ Len(gWhen.Schedule) = 0) =>
    /\ nextEvalMatch(gWhen, gNow) <=> gOut.eligible
    /\ \A i \in 1..AgreeDays :
         nextEvalMatch(gWhen, gNow + i * SecondsPerDay)
           <=> shouldEvaluate(gWhen, gNow + i * SecondsPerDay)

\* an entry with a day, a range and weekdays on a day on which neither the
\* gate nor the estimator accepts it
EstimatorAgreesWithGateWitness ==
  /\ gOut.state = "set"
  /\ Len(gEntry.day_of_month_range) > 0 /\ Len(gWhen.DaysOfWeek) > 0
  /\ Len(gWhen.DayOfMonth) > 0
  /\ ~gOut.eligible /\ ~nextEvalMatch(gWhen, gNow)
  /\ \E i \in 1..AgreeDays : nextEvalMatch(gWhen, gNow + i * SecondsPerDay)

(***************************************************************************)
(* The value resolver on its own: resolveValue (lint.go 253-313) applied   *)
(* to an expression and a snapshot.                                        *)
(***************************************************************************)
ResolveExprs ==
  { <<"50.5">>, <<"25.25">>, <<"0.0004">>, <<"0.0005">>, <<"10">>, <<"abc">>,
    <<"2", "*", "25.25">>, <<"0.5", "*", "account.balance(", "Checking", ")">>,
    <<"25.25", "*", "var.", "odd">>, <<"2", "*", "var.", "missing">>,
    <<"0.5", "*", "var.", "odd">>, <<"0.0004", "*", "account.due(", "Card", ")">>,
    <<"account.balance(", "Checking", ")">>, <<"account.due(", "Card", ")">>,
    <<"account.balance(", "Savings", ")">>, <<"var.", "a">>, <<"var.", "missing">>,
    <<"account.balance(", "Checking", ")", "*", "2">>,
    <<"account.due(", "Card", ")", "*", "0.5">>,
    <<"account.balance(", "Checking", ")", "*", "2", "*", "3">>,
    <<"var.", "a", "*", "0.5">>, <<"2", "*", "3", "*", "var.", "a">>,
    <<"Card", "*", "2">>, <<"2", "*", "0.5", "*", "10">> }

ResolveVarMaps ==
  { EmptyMap, ("a" :> 25250) @@ ("odd" :> 1003), ("a" :> 0 - 333) @@ ("odd" :> 0 - 1003) }

ResolveData ==
  {[Accounts |-> acc, Vars |-> vm, Now |-> 0] : acc \in AccountSets, vm \in ResolveVarMaps}

InitResolve ==
  /\ file = AbsentFile /\ values = EmptyMap /\ storeOpen = FALSE
  /\ EvalIdle /\ GateIdle /\ ClientsIdle /\ ServiceIdle /\ LintIdle
  /\ rExpr \in ResolveExprs
  /\ rData \in ResolveData
  /\ rOut = [state |-> "unset"]
  /\ cdata = <<>>

\* resolveValue(expr, data)
ResolveApply ==
  /\ rOut.state = "unset"
  /\ rOut' = [state |-> "set", res |-> resolveValue(rExpr, rData)]
  /\ UNCHANGED <<rExpr, rData, cdata, storeVars, evalVars, gateVars, clientVars, serviceVars,
                 lintVars>>

NextResolve == ResolveApply

SpecResolve == InitResolve /\ [][NextResolve]_allVars

(***************************************************************************)
(* Properties of the resolver (specification SpecResolve).                 *)
(***************************************************************************)
starsOf(expr) == {i \in 1..Len(expr) : expr[i] = "*"}

isLiteral(toks) == Len(toks) = 1 /\ ParseFloat(toks[1]).ok

firstStar(expr) == CHOOSE i \in starsOf(expr) : \A j \in starsOf(expr) : i <= j

\* C25: an expression with more than one "*", or with one "*" whose left
\* side is not a numeric literal, resolves to the unsupported-expression
\* error and to no value.
MultiplierGrammar ==
  rOut.state = "set" =>
    LET stars == starsOf(rExpr)
    IN  (\/ Cardinality(stars) > 1
         \/ Cardinality(stars) = 1 /\ ~isLiteral(SubSeq(rExpr, 1, firstStar(rExpr) - 1)))
          => ~rOut.res.ok /\ rOut.res.err = "Unsupported"


\* v is an integer nearest to num/den (den > 0)
nearest(v, num, den) ==
  LET d == v * den - num
  IN  2 * (IF d >= 0 THEN d ELSE 0 - d) <= den

resolvedTo(v) == rOut.res.ok /\ rOut.res.v = v

\* C26: a decimal literal resolves to the literal times 1000 rounded to the
\* nearest integer ("50.5" gives 50500); f * e with a numeric literal f
\* resolves to resolve(e) * f rounded to the nearest integer ("2 * 25.25"
\* gives 50500) and fails when e fails; account.balance("N") and
\* account.due("N") resolve to the snapshot balance of N unchanged and
\* var.<name> to the stored observation unchanged.
ResolverArithmetic ==
  rOut.state = "set" =>
    /\ rExpr = <<"50.5">> => resolvedTo(50500)
    /\ rExpr = <<"2", "*", "25.25">> => resolvedTo(50500)
    /\ isLiteral(rExpr) =>
         /\ rOut.res.ok
         /\ nearest(rOut.res.v, ParseFloat(rExpr[1]).num * 1000, ParseFloat(rExpr[1]).den)
    /\ (Len(rExpr) > 2 /\ starsOf(rExpr) = {2} /\ ParseFloat(rExpr[1]).ok) =>
         LET f == ParseFloat(rExpr[1])
             e == SubSeq(rExpr, 3, Len(rExpr))
         IN  /\ (Len(e) = 3 /\ e[1] \in {"account.balance(", "account.due("}
                   /\ e[2] \in DOMAIN rData.Accounts) =>
                  /\ rOut.res.ok
                  /\ nearest(rOut.res.v, rData.Accounts[e[2]] * f.num, f.den)
             /\ (Len(e) = 2 /\ e[1] = "var.") =>
                  IF e[2] \in DOMAIN rData.Vars
                  THEN rOut.res.ok /\ nearest(rOut.res.v, rData.Vars[e[2]] * f.num, f.den)
                  ELSE ~rOut.res.ok
             /\ isLiteral(e) =>
                  /\ rOut.res.ok
                  /\ \E m \in (0 - 100000)..100000 :
                       /\ nearest(m, ParseFloat(e[1]).num * 1000, ParseFloat(e[1]).den)
                       /\ nearest(rOut.res.v, m * f.num, f.den)
    /\ (Len(rExpr) = 3 /\ rExpr[1] \in {"account.balance(", "account.due("}
          /\ rExpr[3] = ")" /\ rExpr[2] \in DOMAIN rData.Accounts) =>
         resolvedTo(rData.Accounts[rExpr[2]])
    /\ (Len(rExpr) = 2 /\ rExpr[1] = "var." /\ rExpr[2] \in DOMAIN rData.Vars) =>
         resolvedTo(rData.Vars[rExpr[2]])

ResolverArithmeticWitness ==
  /\ rOut.state = "set"
  /\ rExpr = <<"25.25", "*", "var.", "odd">>
  /\ "odd" \in DOMAIN rData.Vars /\ rData.Vars["odd"] = 1003
  /\ resolvedTo(25326)


(***************************************************************************)
(* The variable mapping the When conditions see (specification Spec).      *)
(***************************************************************************)
\* C27: when a store is supplied, the When conditions of every rule, a rule
\* with no Observe entries included, are resolved against a variable
\* mapping equal to the full current contents of the store, whatever
\* mapping the caller placed in the snapshot.
WhenSeesStore ==
  (pc = "when" /\ useStore) => Vars = Snapshot(values)


(***************************************************************************)
(* The schedule gate is never eligible off a tick (specification SpecGate).*)
(***************************************************************************)
\* C28: for a When with a valid schedule, if the gate is eligible at now
\* then the schedule has a tick in the calendar minute of now; in a minute
\* that holds no tick of the schedule the gate is not eligible.
CronGateNotSpurious ==
  (gOut.state = "set" /\ Len(gWhen.Schedule) # 0 /\ ParseStandard(gWhen.Schedule).ok)
    => /\ gOut.eligible => cronTickInMinute(ParseStandard(gWhen.Schedule), gNow)
       /\ ~cronTickInMinute(ParseStandard(gWhen.Schedule), gNow)
            => ~gOut.eligible /\ gOut.triggers = <<>>

CronGateNotSpuriousWitness ==
  /\ gOut.state = "set"
  /\ gWhen.Schedule = <<"0", "9", "*", "*", "1">>
  /\ gNow = Date(2024, 3, 18, 9, 0, 0)
  /\ gOut.eligible


(***************************************************************************)
(* The store after an aborted Evaluate (specification Spec).               *)
(***************************************************************************)
\* the Observe entries of the trace that were processed without error and
\* captured, applied in order to a map
RECURSIVE applyCaptures(_, _, _)
applyCaptures(vals, tr, now) ==
  IF Len(tr) = 0 THEN vals
  ELSE LET e == Head(tr)
       IN  applyCaptures(IF e.k = "obs" /\ e.out = "none" /\ e.wrote
                           THEN putValue(vals, e.var, ObservedValue(e.val, now))
                           ELSE vals,
                         Tail(tr), now)

\* C29: when Evaluate stops with an error or a cancellation, the store
\* equals the store it was called with after exactly the captures of the
\* Observe entries processed before that point, in order: nothing of the
\* entry that failed or of a later entry is in it, and nothing captured
\* before is rolled back.
AbortedStoreEffect ==
  (pc = "done" /\ useStore /\ err.kind # "none")
    => values = applyCaptures(valuesAtCall, trace, Now)


(***************************************************************************)
(* captureObservation (lint.go 186-215) called by two Evaluate calls that  *)
(* run concurrently on one Store: store.Get and store.Set are two calls,   *)
(* each under Store.mu, and the lock is free between them.                 *)
(***************************************************************************)
CaptureObserves == {Observe("14", "due", Due("Card")), Observe("14", "due", <<"0.5", "*", "var.", "due">>)}

\* both calls run on 2024-01-14
CaptureNows == {Date(2024, 1, 14, 9, 0, 0), Date(2024, 1, 14, 12, 0, 30)}

\* what the store holds when the calls start: nothing, a capture of the
\* month before, a capture of the same day
CaptureStores ==
  { EmptyMap,
    "due" :> ObservedValue(77000, Date(2023, 12, 14, 9, 0, 0)),
    "due" :> ObservedValue(88000, Date(2024, 1, 14, 0, 0, 30)) }

NoCapture ==
  [obs |-> Observe("", "", <<>>), Accounts |-> EmptyMap, Vars |-> EmptyMap, Now |-> 0,
   at |-> "start", err |-> "none"]

InitCapture ==
  /\ EvalIdle /\ GateIdle /\ ServiceIdle /\ LintIdle
  /\ rExpr = <<>> /\ rData = <<>> /\ rOut = [state |-> "unset"]
  /\ values \in CaptureStores
  /\ file = (IF values = EmptyMap THEN AbsentFile
             ELSE writeFile(AbsentFile, MarshalIndent(values), "written"))
  /\ storeOpen = TRUE
  /\ mu = 0
  /\ cpc = [g \in Goroutines |-> "idle"]
  /\ cop = [g \in Goroutines |-> NoCall]
  /\ done = <<>>
  /\ \E obs \in CaptureObserves :
       cdata \in [Goroutines -> {[NoCapture EXCEPT !.obs = obs, !.Accounts = acc,
                                                  !.Vars = Snapshot(values), !.Now = t] :
                                   acc \in AccountSets, t \in CaptureNows}]

\* now.Day() == day of a numeric capture_on: store.Get is called
callsGet(obs, now) ==
  /\ ~(obs.CaptureOn = "" \/ EqualFold(obs.CaptureOn, "always"))
  /\ Atoi(obs.CaptureOn).ok
  /\ Day(now) = Atoi(obs.CaptureOn).v

\* From `if !shouldCapture` on, given what store.Get returned: return nil,
\* return the error of resolveValue, or call store.Set.
captureFrom(g, existing) ==
  LET d   == cdata[g]
      val == resolveValue(d.obs.Value, [Accounts |-> d.Accounts, Vars |-> d.Vars, Now |-> d.Now])
  IN  IF ~shouldCapture(d.obs, existing, d.Now) THEN
        /\ cdata' = [cdata EXCEPT ![g].at = "returned"]
        /\ cop' = [cop EXCEPT ![g] = NoCall]
        /\ cpc' = [cpc EXCEPT ![g] = "idle"]
      ELSE IF ~val.ok THEN
        /\ cdata' = [cdata EXCEPT ![g].at = "returned", ![g].err = val.err]
        /\ cop' = [cop EXCEPT ![g] = NoCall]
        /\ cpc' = [cpc EXCEPT ![g] = "idle"]
      ELSE
        /\ cdata' = [cdata EXCEPT ![g].at = "set"]
        /\ cop' = [cop EXCEPT ![g] = [NoCall EXCEPT !.op = "Set", !.name = d.obs.Variable,
                                                   !.val = ObservedValue(val.v, d.Now)]]
        /\ cpc' = [cpc EXCEPT ![g] = "lock"]

\* captureObservation up to its first store call
CaptureStart(g) ==
  /\ cdata[g].at = "start"
  /\ cpc[g] = "idle"
  /\ IF captureFieldsMissing(cdata[g].obs) THEN
       /\ cdata' = [cdata EXCEPT ![g].at = "returned", ![g].err = "CaptureFieldMissing"]
       /\ UNCHANGED <<cop, cpc>>
     ELSE IF callsGet(cdata[g].obs, cdata[g].Now) THEN
       /\ cdata' = [cdata EXCEPT ![g].at = "get"]
       /\ cop' = [cop EXCEPT ![g] = [NoCall EXCEPT !.op = "Get", !.name = cdata[g].obs.Variable]]
       /\ cpc' = [cpc EXCEPT ![g] = "lock"]
     ELSE captureFrom(g, Get(EmptyMap, ""))
  /\ UNCHANGED <<mu, done, rExpr, rData, rOut, storeVars, evalVars, gateVars, serviceVars,
                 lintVars>>

\* store.Get returns (its deferred Unlock runs) and captureObservation goes
\* on to its decision
GetReturn(g) ==
  /\ cdata[g].at = "get"
  /\ cpc[g] = "unlock"
  /\ mu' = 0
  /\ done' = Append(done, [cop[g] EXCEPT !.buf = {}])
  /\ captureFrom(g, cop[g].got)
  /\ UNCHANGED <<rExpr, rData, rOut, storeVars, evalVars, gateVars, serviceVars, lintVars>>

\* store.Set returns (its deferred Unlock runs) and captureObservation
\* returns its error
SetReturn(g) ==
  /\ cdata[g].at = "set"
  /\ cpc[g] = "unlock"
  /\ mu' = 0
  /\ done' = Append(done, [cop[g] EXCEPT !.buf = {}])
  /\ cdata' = [cdata EXCEPT ![g].at = "returned",
                            ![g].err = IF cop[g].ok THEN "none" ELSE "Persist"]
  /\ cop' = [cop EXCEPT ![g] = NoCall]
  /\ cpc' = [cpc EXCEPT ![g] = "idle"]
  /\ UNCHANGED <<rExpr, rData, rOut, storeVars, evalVars, gateVars, serviceVars, lintVars>>

NextCapture ==
  \E g \in Goroutines :
    \/ CaptureStart(g) \/ Lock(g) \/ GetBody(g) \/ GetReturn(g)
    \/ SetAssign(g) \/ SetMarshal(g) \/ SetWrite(g) \/ SetReturn(g)

SpecCapture == InitCapture /\ [][NextCapture]_allVars

(***************************************************************************)
(* Properties of concurrent captures (specification SpecCapture).          *)
(***************************************************************************)
\* C30: when two Evaluate calls run concurrently on one Store on the
\* capture_on day of an Observe, the observation is written by at most one
\* of them under every interleaving of their store operations: a value
\* recorded that day is never overwritten by the other call.
CaptureOncePerDay ==
  /\ Cardinality({i \in SetCalls(done) : done[i].ok}) <= 1
  /\ \A g \in Goroutines :
       (cpc[g] \in {"marshal", "write", "unlock"} /\ cop[g].op = "Set") =>
         LET was == Get(cop[g].before, cop[g].name)
         IN  ~(was.ok /\ sameCalendarDay(was.v.RecordedAt, cdata[g].Now))

=============================================================================
